---- MODULE Spec2Model ----
\* Library Catalog Engine of plyer: the SQLite catalog (db.ts), the reconciling
\* scanner and the playlist query / mutation API (library.ts), and the thumbnail
\* queue the query feeds (thumbnail.ts).
EXTENDS Integers, Sequences, FiniteSets, TLC

\* ---------------------------------------------------------------- bounds
\* At most MaxMutations Mutation-API calls are explored per behaviour.
MaxMutations == 1
\* play_count is explored up to MaxPlayCount.
MaxPlayCount == 1
\* At most MaxQueryMutations Mutation-API calls per behaviour of the query specification.
MaxQueryMutations == 2
\* At most MaxLifecycleMutations Mutation-API calls per behaviour of the lifecycle specification.
MaxLifecycleMutations == 2

\* ------------------------------------------------------------- constants
\* SQL NULL / JS null (a nullable integer column or field).
NULL == -1
\* The modulus of the seeded order.
Modulus == 2147483647

VIDEO_EXTENSIONS == {".mov", ".avi", ".mp4", ".webm", ".mkv"}
NoRoot == "null"
RootDir == "/lib"
LibraryName == "Library"

\* The directory entries the environment can hold below RootDir (regular files).
MediaPaths == {"a.mp4", "B.MKV", "d/a.mp4"}
OtherPaths == {"notes.txt", ".cache/v.mp4"}
\* Date.now() as read by one call.
Times == {5}
\* Tag names as strings of characters.
TagNames == {<<"a">>, <<"A">>}
RatingInputs == {3}
DurationInputs == {700}
SettingNames == {"ui.sort"}
SettingValues == {"filename"}
\* SQL NULL / JS null in a text column or field.
NullText == "null"

VARIABLES root, db, libraryPlaylistId, playlists, files, sqlite_sequence, file_playlists,
          tags, file_tags, file_tags_sequence, settings, disk, unreadable, catalogDirs, peer,
          ffmpegPath, queue, working, spawned, thumbs, result, nmut

\* files maps the id of each files row to the row; sqlite_sequence is the largest
\* id AUTOINCREMENT has handed out for files. tags is the tags table in id order
\* (ids 1..Len(tags)). file_tags holds its rows with their ids, and
\* file_tags_sequence is the largest id AUTOINCREMENT has handed out for them; the
\* surrogate ids of file_playlists rows are left out.
\* disk is the set of regular files below the root, unreadable the directories
\* below the root that readdir fails on, catalogDirs the directories of the
\* machine that hold a catalog file, and peer the position and the local
\* values of a second app instance working on the same folder.
catalog == <<playlists, files, sqlite_sequence, file_playlists, tags, file_tags,
             file_tags_sequence, settings>>
manager == <<root, db, libraryPlaylistId>>
thumbnail == <<ffmpegPath, queue, working, spawned, thumbs>>
host == <<unreadable, catalogDirs, peer>>
vars == <<root, db, libraryPlaylistId, playlists, files, sqlite_sequence, file_playlists,
          tags, file_tags, file_tags_sequence, settings, disk, unreadable, catalogDirs, peer,
          ffmpegPath, queue, working, spawned, thumbs, result, nmut>>

\* ------------------------------------------------------------ path helpers
\* path.extname, tabulated over the entries of the model.
Extname(p) ==
    CASE p = "a.mp4" -> ".mp4"
      [] p = "B.MKV" -> ".MKV"
      [] p = "d/a.mp4" -> ".mp4"
      [] p = "notes.txt" -> ".txt"
      [] p = ".cache/v.mp4" -> ".mp4"
      [] p = "d/.cache/w.mp4" -> ".mp4"
      [] OTHER -> ""

\* path.basename, tabulated over the entries of the model.
Basename(p) ==
    CASE p = "d/a.mp4" -> "a.mp4"
      [] p = ".cache/v.mp4" -> "v.mp4"
      [] p = "d/.cache/w.mp4" -> "w.mp4"
      [] OTHER -> p

\* String.prototype.toLowerCase, tabulated over the extensions of the model.
ToLowerCase(s) ==
    CASE s = ".MKV" -> ".mkv"
      [] OTHER -> s

isVideoFile(filePath) == ToLowerCase(Extname(filePath)) \in VIDEO_EXTENSIONS

\* Whether the walk meets an entry named ".cache" on the way to p (such an entry
\* is skipped with everything below it), tabulated over the entries of the model.
BelowCacheEntry(p) == p \in {".cache/v.mp4", "d/.cache/w.mp4"}

\* The directories between the root and an entry, tabulated over the entries of
\* the model.
DirsAbove(p) ==
    CASE p = "d/a.mp4" -> {"d"}
      [] p = ".cache/v.mp4" -> {".cache"}
      [] p = "d/.cache/w.mp4" -> {"d", "d/.cache"}
      [] OTHER -> {}

\* Whether the walk pushes a directory on its stack and reads it: every
\* directory it meets except the entries named ".cache".
WalkReads(dir) == dir = "d"

\* fs.readdirSync throws for a directory the walk reads: collectFiles has no
\* try, so the walk ends with the error.
WalkThrows(u) == \E dir \in u : WalkReads(dir)

\* Absolute paths of the machine as sequences of names: the chain of directories
\* from the file system root down through the library folder to the deepest
\* directory of the model, and RootDir as such a path.
DeepestDir == <<"lib", "s", "t", "u", "w">>
RootPath == <<"lib">>
Dirs == {SubSeq(DeepestDir, 1, k) : k \in 0..Len(DeepestDir)}
\* The targets inspectPath is called with: each directory and a file in each.
Targets == Dirs \cup {Append(dir, "x.mp4") : dir \in Dirs}

\* path.dirname: the file system root is its own parent.
Dirname(p) == IF Len(p) = 0 THEN p ELSE SubSeq(p, 1, Len(p) - 1)

\* fs.statSync(targetPath).isDirectory()
IsDirectory(p) == p \in Dirs

\* isInsideRoot: path.relative(root, targetPath) neither starts with ".." nor is absolute.
isInsideRoot(targetPath, r) ==
    Len(targetPath) >= Len(r) /\ SubSeq(targetPath, 1, Len(r)) = r

\* All orderings of a finite set as sequences without repetition.
RECURSIVE Orderings(_)
Orderings(S) ==
    IF S = {} THEN {<<>>}
    ELSE UNION {{<<x>> \o s : s \in Orderings(S \ {x})} : x \in S}

\* collectFiles: the media files below the root, one ScannedFile each; the order
\* of the list is the order readdir reports, which the walk does not fix.
ScannedFile(e) ==
    [relativePath |-> e.path, name |-> Basename(e.path),
     ext |-> ToLowerCase(Extname(e.path)), size |-> e.size, mtime |-> e.mtime,
     createdMs |-> e.birthtime]

\* The entries the walk keeps: not below an entry named ".cache", with a video extension.
MediaOnDisk(d) == {x \in d : ~BelowCacheEntry(x.path) /\ isVideoFile(x.path)}

collectFiles(d) == Orderings({ScannedFile(e) : e \in MediaOnDisk(d)})

DiskPaths == {e.path : e \in disk}

\* ------------------------------------------------------------ catalog store
\* A files row as INSERT INTO files creates it (scanLibrary's insertFile).
NewFileRow(file, now) ==
    [path |-> file.relativePath, name |-> file.name, ext |-> file.ext,
     duration_ms |-> 0, size |-> file.size, mtime |-> file.mtime,
     created_ms |-> file.createdMs, rating |-> 0, meta |-> NULL, added_on |-> now,
     last_played |-> NULL, play_count |-> 0, is_missing |-> 0]

FileIds == DOMAIN files

\* INSERT OR IGNORE INTO file_playlists: UNIQUE(file_id, playlist_id) drops the row
\* when the pair is already there.
InsertFilePlaylist(fps, fileId, playlistId, orderIndex) ==
    IF \E m \in fps : m.file_id = fileId /\ m.playlist_id = playlistId
    THEN fps
    ELSE fps \cup {[file_id |-> fileId, playlist_id |-> playlistId, order_index |-> orderIndex]}

\* fp.order_index of the LEFT JOIN on (file_id, playlist_id): NULL without a membership.
OrderIndexOf(fps, fileId, playlistId) ==
    IF \E m \in fps : m.file_id = fileId /\ m.playlist_id = playlistId
    THEN (CHOOSE m \in fps : m.file_id = fileId /\ m.playlist_id = playlistId).order_index
    ELSE NULL

\* Mutant: the largest order index of the collection is not read.
MaxOrder_ReadsNothing(fps, playlistId) == NULL

\* SELECT MAX(order_index) FROM file_playlists WHERE playlist_id = ?
MaxOrder(fps, playlistId) ==
    LET S == {m.order_index : m \in {x \in fps : x.playlist_id = playlistId}}
    IN IF S = {} THEN NULL ELSE CHOOSE x \in S : \A y \in S : y <= x

\* Mutant: the Library row is inserted at every opening.
openDatabase_AlwaysInserts(pl) == Append(pl, LibraryName)

\* openDatabase: the schema is created if absent and a playlists row named Library
\* is inserted unless one exists.
openDatabase(pl) ==
    IF \E i \in 1..Len(pl) : pl[i] = LibraryName THEN pl ELSE Append(pl, LibraryName)

\* getLibraryPlaylistId: the first playlists row named Library.
getLibraryPlaylistId(pl) == CHOOSE i \in 1..Len(pl) : pl[i] = LibraryName /\ \A j \in 1..(i-1) : pl[j] # LibraryName

\* ---------------------------------------------------------------- scanner
\* scanLibrary's SELECT of the existing rows with their Library order index.
ExistingRows ==
    [i \in FileIds |-> [id |-> i, path |-> files[i].path,
                         order_index |-> OrderIndexOf(file_playlists, i, libraryPlaylistId)]]

\* Mutant: the lookup never finds a row.
MapGet_NeverFinds(existing, p) == 0

\* Mutant: the lookup is keyed by the file name instead of the relative path.
MapGet_ByName(existing, p) ==
    LET S == {i \in DOMAIN existing : Basename(existing[i].path) = Basename(p)}
    IN IF S = {} THEN 0 ELSE CHOOSE i \in S : \A j \in S : j <= i

\* map.get(path): the last existing row with that path, 0 when there is none.
MapGet(existing, p) ==
    LET S == {i \in DOMAIN existing : existing[i].path = p}
    IN IF S = {} THEN 0 ELSE CHOOSE i \in S : \A j \in S : j <= i

\* Mutant: INSERT INTO files does not see the UNIQUE constraint on path.
PathTaken_Never(fs, p) == FALSE

\* Whether INSERT INTO files fails on the UNIQUE constraint on path.
PathTaken(fs, p) == \E i \in DOMAIN fs : fs[i].path = p

\* One iteration of the transaction's loop over the scanned files: a file the
\* map does not know is inserted, and the INSERT fails when a row has its path.
ScanFile(acc, existing, file, playlistId, now) ==
    LET e == MapGet(existing, file.relativePath)
    IN IF e = 0
       THEN LET fileId == acc.seq + 1
            IN IF PathTaken(acc.files, file.relativePath)
               THEN [acc EXCEPT !.threw = TRUE]
               ELSE
               [acc EXCEPT !.files = @ @@ (fileId :> NewFileRow(file, now)),
                           !.seq = fileId,
                           !.fps = InsertFilePlaylist(@, fileId, playlistId, acc.nextOrder),
                           !.nextOrder = @ + 1,
                           !.added = @ + 1,
                           !.seenIds = @ \cup {fileId}]
       ELSE LET row == existing[e]
                updatedRow == [acc.files[row.id] EXCEPT !.name = file.name, !.ext = file.ext,
                                  !.size = file.size, !.mtime = file.mtime,
                                  !.created_ms = file.createdMs, !.is_missing = 0]
            IN [acc EXCEPT !.files = [@ EXCEPT ![row.id] = updatedRow],
                           !.fps = IF row.order_index = NULL
                                   THEN InsertFilePlaylist(@, row.id, playlistId, acc.nextOrder)
                                   ELSE @,
                           !.nextOrder = IF row.order_index = NULL THEN @ + 1 ELSE @,
                           !.updated = @ + 1,
                           !.seenIds = @ \cup {row.id}]

RECURSIVE ScanLoop(_, _, _, _, _, _)
ScanLoop(acc, existing, list, i, playlistId, now) ==
    IF i > Len(list) \/ acc.threw THEN acc
    ELSE ScanLoop(ScanFile(acc, existing, list[i], playlistId, now), existing, list, i + 1, playlistId, now)

\* Mutant: no row is flagged.
MarkMissing_FlagsNothing(fs, existing, seenIds) == fs

\* Mutant: unseen rows are deleted instead of flagged.
MarkMissing_Deletes(fs, existing, seenIds) ==
    [i \in {j \in DOMAIN fs : ~(j \in DOMAIN existing /\ j \notin seenIds)} |-> fs[i]]

\* Mutant: flagging a row also resets its rating.
MarkMissing_ResetsRating(fs, existing, seenIds) ==
    [i \in DOMAIN fs |->
        IF i \in DOMAIN existing /\ i \notin seenIds
        THEN [fs[i] EXCEPT !.is_missing = 1, !.rating = 0] ELSE fs[i]]

\* Mutant: flagging a row also resets its recorded size.
MarkMissing_ForgetsSize(fs, existing, seenIds) ==
    [i \in DOMAIN fs |->
        IF i \in DOMAIN existing /\ i \notin seenIds
        THEN [fs[i] EXCEPT !.is_missing = 1, !.size = 0] ELSE fs[i]]

\* markMissing for every existing row the loop has not seen.
MarkMissing(fs, existing, seenIds) ==
    [i \in DOMAIN fs |->
        IF i \in DOMAIN existing /\ i \notin seenIds THEN [fs[i] EXCEPT !.is_missing = 1] ELSE fs[i]]

\* Mutant: the writes made before the failure stay.
Rollback_KeepsWrites(before, written) == written

\* db.transaction(fn) when fn throws: ROLLBACK restores the tables as they were
\* at BEGIN, and the error is thrown again.
Rollback(before, written) == before

\* let nextOrder = (maxRow?.maxOrder ?? 0) + 1
NextOrder(fps, playlistId) ==
    LET maxOrder == MaxOrder(fps, playlistId)
    IN (IF maxOrder = NULL THEN 0 ELSE maxOrder) + 1

\* The transaction of scanLibrary on the tables as they are, with the list, the
\* existing rows and the next order index that were read before it began.
ScanTxOn(list, existing, nextOrder, playlistId, now) ==
    LET before == [files |-> files, seq |-> sqlite_sequence, fps |-> file_playlists]
        start == [files |-> files, seq |-> sqlite_sequence, fps |-> file_playlists,
                  nextOrder |-> nextOrder, added |-> 0, updated |-> 0, seenIds |-> {},
                  threw |-> FALSE]
        acc == ScanLoop(start, existing, list, 1, playlistId, now)
        written == [files |-> MarkMissing(acc.files, existing, acc.seenIds), seq |-> acc.seq,
                    fps |-> acc.fps]
        tables == IF acc.threw THEN Rollback(before, written) ELSE written
    IN [files |-> tables.files, seq |-> tables.seq, fps |-> tables.fps,
        added |-> acc.added,
        removed |-> Cardinality(DOMAIN existing) - Cardinality(acc.seenIds),
        updated |-> acc.updated, threw |-> acc.threw]

\* scanLibrary after the walk: the reads and the transaction of one instance.
ScanTx(list, now) ==
    ScanTxOn(list, ExistingRows, NextOrder(file_playlists, libraryPlaylistId),
             libraryPlaylistId, now)

\* ------------------------------------------------------------ query engine
\* COLLATE NOCASE rank of a file name, tabulated over the names of the model
\* ("a.mp4" < "b.mkv" < "v.mp4" once ASCII letters are folded).
NoCaseRank(name) ==
    CASE name = "a.mp4" -> 1
      [] name = "B.MKV" -> 2
      [] OTHER -> 3

\* The names of the tags of a file, by the join file_tags -> tags.
TagNamesOf(fileId) == {tags[ft.tag_id] : ft \in {x \in file_tags : x.file_id = fileId}}

\* Mutant: the rating comparison is strict.
RatingFilter_Strict(options, row) == options.ratingMin > 0 => row.rating > options.ratingMin

\* buildPlaylistQueryParts, rating part: "AND f.rating >= ?" only when ratingMin > 0.
RatingFilter(options, row) == options.ratingMin > 0 => row.rating >= options.ratingMin

\* buildPlaylistQueryParts, tag part: HAVING COUNT(DISTINCT CASE WHEN t.name IN
\* (...) THEN t.name END) = tags.length, only when the list is not empty.
HavingClause(options, fileId) ==
    Len(options.tags) > 0 =>
        Cardinality({n \in TagNamesOf(fileId) : \E i \in 1..Len(options.tags) : options.tags[i] = n})
            = Len(options.tags)

\* Mutant: the base predicate does not exclude missing rows.
BaseIds_KeepsMissing(options) ==
    {i \in FileIds : RatingFilter(options, files[i]) /\ HavingClause(options, i)}

\* baseSql: the ids of the groups the query keeps (WHERE f.is_missing = 0 ...).
BaseIds(options) ==
    {i \in FileIds : files[i].is_missing = 0 /\ RatingFilter(options, files[i])
                     /\ HavingClause(options, i)}

\* Mutant: the count is taken without the rating filter.
TotalOf_IgnoresRating(options) ==
    Cardinality({i \in FileIds : files[i].is_missing = 0 /\ HavingClause(options, i)})

\* SELECT COUNT(*) over the grouped base query.
TotalOf(options) == Cardinality(BaseIds(options))

\* (a + b) mod Modulus for a, b in 0..Modulus-1, within 32-bit integers.
AddMod(a, b) == IF a >= Modulus - b THEN a - (Modulus - b) ELSE a + b

\* (a * b) mod Modulus for 0 <= a < 2^15 and 0 <= b < 2^31. SQLite multiplies in
\* 64 bits; the model splits b into 16-bit halves and uses 2^31 = 1 (mod Modulus),
\* so that no intermediate value leaves 32 bits.
MulMod(a, b) ==
    LET lo == (a * (b % 65536)) % Modulus
        hi == (a * (b \div 65536)) % Modulus
        shifted == ((hi % 32768) * 65536 + (hi \div 32768)) % Modulus
    IN AddMod(lo, shifted)

Abs(n) == IF n < 0 THEN 0 - n ELSE n

\* buildOrderBy, random: const seed = Math.abs(Math.trunc(options.seed ?? 1)) || 1
\* (an absent seed is the seed 1).
EffectiveSeed(options) == IF Abs(options.seed) = 0 THEN 1 ELSE Abs(options.seed)

\* ((f.id * ?) % 2147483647)
RandomKey(id, seed) == MulMod(id, seed)

\* Mutant: the created order is ascending.
OrderKey_CreatedAscending(options, id) ==
    CASE options.sort = "filename" -> <<NoCaseRank(files[id].name), id>>
      [] options.sort = "created" -> <<files[id].created_ms, id>>
      [] options.sort = "random" -> <<RandomKey(id, EffectiveSeed(options)), id>>
      [] OTHER ->
           LET oi == OrderIndexOf(file_playlists, id, libraryPlaylistId)
           IN <<IF oi = NULL THEN 0 ELSE oi, id>>

\* Mutant: the random order does not use the seed.
OrderKey_RandomIgnoresSeed(options, id) ==
    CASE options.sort = "filename" -> <<NoCaseRank(files[id].name), id>>
      [] options.sort = "created" -> <<0 - files[id].created_ms, 0 - id>>
      [] options.sort = "random" -> <<RandomKey(id, 1), id>>
      [] OTHER ->
           LET oi == OrderIndexOf(file_playlists, id, libraryPlaylistId)
           IN <<IF oi = NULL THEN 0 ELSE oi, id>>

\* buildOrderBy: the ORDER BY terms as a tuple compared left to right, ascending.
\* SQLite's sorter keeps rows whose terms are all equal in the order the GROUP BY
\* f.id loop produced them, ascending id: the last component of the random key.
OrderKey(options, id) ==
    CASE options.sort = "filename" -> <<NoCaseRank(files[id].name), id>>
      [] options.sort = "created" -> <<0 - files[id].created_ms, 0 - id>>
      [] options.sort = "random" -> <<RandomKey(id, EffectiveSeed(options)), id>>
      [] OTHER ->
           LET oi == OrderIndexOf(file_playlists, id, libraryPlaylistId)
           IN <<IF oi = NULL THEN 0 ELSE oi, id>>

KeyLess(k1, k2) == k1[1] < k2[1] \/ (k1[1] = k2[1] /\ k1[2] < k2[2])

\* ORDER BY: the ids of S in ascending key order.
RECURSIVE OrderBy(_, _)
OrderBy(options, S) ==
    IF S = {} THEN <<>>
    ELSE LET m == CHOOSE x \in S : \A y \in S \ {x} : KeyLess(OrderKey(options, x), OrderKey(options, y))
         IN <<m>> \o OrderBy(options, S \ {m})

\* const limit = options.limit && options.limit > 0 ? Math.trunc(options.limit) : null
LimitOf(options) == IF options.limit > 0 THEN options.limit ELSE NULL
\* Mutant: the offset of the request is dropped.
OffsetOf_AlwaysZero(options) == 0

\* const offset = options.offset && options.offset > 0 ? Math.trunc(options.offset) : 0
OffsetOf(options) == IF options.offset > 0 THEN options.offset ELSE 0

Min(a, b) == IF a < b THEN a ELSE b

\* Mutant: OFFSET is not applied.
Page_IgnoresOffset(options, ordered) ==
    IF LimitOf(options) = NULL THEN ordered
    ELSE SubSeq(ordered, 1, Min(Len(ordered), LimitOf(options)))

\* "LIMIT ? OFFSET ?" when limit is set, otherwise the whole ordered result.
Page(options, ordered) ==
    IF LimitOf(options) = NULL THEN ordered
    ELSE SubSeq(ordered, OffsetOf(options) + 1, Min(Len(ordered), OffsetOf(options) + LimitOf(options)))

\* The ids of the rows the paged SELECT returns, in order.
RowIds(options) == Page(options, OrderBy(options, BaseIds(options)))

\* Joins a sequence of strings with "||" between them.
RECURSIVE JoinNames(_)
JoinNames(names) ==
    IF Len(names) = 0 THEN <<>>
    ELSE IF Len(names) = 1 THEN names[1]
    ELSE names[1] \o <<"|", "|">> \o JoinNames(Tail(names))

\* A finite set of integers in ascending order (the order of an index scan).
RECURSIVE Ascending(_)
Ascending(S) ==
    IF S = {} THEN <<>>
    ELSE LET m == CHOOSE x \in S : \A y \in S : x <= y
         IN <<m>> \o Ascending(S \ {m})

\* GROUP_CONCAT(t.name, '||'): NULL for a group without a tag.
GroupConcat(fileId) ==
    LET ids == Ascending({ft.tag_id : ft \in {x \in file_tags : x.file_id = fileId}})
    IN [isNull |-> Len(ids) = 0, text |-> JoinNames([i \in 1..Len(ids) |-> tags[ids[i]]])]

\* String.prototype.split("||") from position i on, cur being the piece so far.
RECURSIVE SplitFrom(_, _, _)
SplitFrom(s, i, cur) ==
    IF i > Len(s) THEN <<cur>>
    ELSE IF s[i] = "|" /\ i + 1 <= Len(s) /\ s[i + 1] = "|"
         THEN <<cur>> \o SplitFrom(s, i + 2, <<>>)
         ELSE SplitFrom(s, i + 1, Append(cur, s[i]))

\* row.tags ? row.tags.split("||").filter(Boolean) : []
ItemTags(concat) ==
    IF concat.isNull \/ Len(concat.text) = 0 THEN <<>>
    ELSE SelectSeq(SplitFrom(concat.text, 1, <<>>), LAMBDA piece : Len(piece) > 0)

\* getThumbnailPath: the cache path of a relative path (the hash is kept symbolic).
getThumbnailPath(r, relativePath) == <<r, ".cache", "thumbnails", relativePath>>

\* One FileItem of the response (the enrichment of a row).
Item(id) ==
    LET row == files[id]
        oi == OrderIndexOf(file_playlists, id, libraryPlaylistId)
        thumbnailPath == getThumbnailPath(root, row.path)
    IN [id |-> id, path |-> row.path, name |-> row.name, ext |-> row.ext,
        durationMs |-> row.duration_ms, rating |-> row.rating, size |-> row.size,
        mtime |-> row.mtime, createdMs |-> row.created_ms,
        orderIndex |-> IF oi = NULL THEN 0 ELSE oi,
        tags |-> ItemTags(GroupConcat(id)),
        absolutePath |-> <<root, row.path>>,
        hasThumbnailPath |-> thumbnailPath \in thumbs,
        hasThumbnailUrl |-> thumbnailPath \in thumbs]

\* getPlaylist's response for an open catalog.
Response(options) ==
    LET ids == RowIds(options)
    IN [items |-> [i \in 1..Len(ids) |-> Item(ids[i])], total |-> TotalOf(options)]

\* ------------------------------------------------------------ thumbnail queue
\* processQueue: takes the next job and spawns its subprocess unless one is working.
processQueue(st) ==
    IF st.working \/ Len(st.queue) = 0 THEN st
    ELSE [queue |-> Tail(st.queue), working |-> TRUE,
          spawned |-> Append(st.spawned, [job |-> Head(st.queue), events |-> {}, code |-> NULL,
                                          ready |-> FALSE])]

\* enqueueThumbnail
enqueueThumbnail(st, filePath, thumbPath) ==
    IF ~ffmpegPath THEN st
    ELSE IF thumbPath \in thumbs THEN st
    ELSE processQueue([st EXCEPT !.queue = Append(@, [filePath |-> filePath, thumbPath |-> thumbPath])])

\* rows.map(...): every item without a thumbnail artifact is enqueued, in order.
RECURSIVE EnqueueItems(_, _, _)
EnqueueItems(st, items, i) ==
    IF i > Len(items) THEN st
    ELSE EnqueueItems(
            IF items[i].hasThumbnailUrl THEN st
            ELSE enqueueThumbnail(st, items[i].absolutePath, getThumbnailPath(root, items[i].path)),
            items, i + 1)

\* ----------------------------------------------------------------- actions
\* What a call of the second instance holds between its statements.
NoLocals ==
    [list |-> <<>>, existing |-> <<>>, nextOrder |-> 0, fileId |-> 0, tagName |-> <<>>,
     tagId |-> 0, existingId |-> 0]

\* The second instance before it has opened the folder: a new LibraryManager.
PeerClosed ==
    [pc |-> "closed", libraryPlaylistId |-> 0, last |-> "none", threw |-> FALSE, ops |-> 0,
     local |-> NoLocals]

Init ==
    /\ root = NoRoot
    /\ db = NoRoot
    /\ libraryPlaylistId = 0
    /\ playlists = <<>>
    /\ files = <<>>
    /\ sqlite_sequence = 0
    /\ file_playlists = {}
    /\ tags = <<>>
    /\ file_tags = {}
    /\ file_tags_sequence = 0
    /\ settings = {}
    /\ unreadable = {}
    /\ catalogDirs = {}
    /\ peer = PeerClosed
    /\ disk = {[path |-> p, size |-> 1, mtime |-> 1, birthtime |-> 1] : p \in OtherPaths}
    /\ ffmpegPath = FALSE
    /\ queue = <<>>
    /\ working = FALSE
    /\ spawned = <<>>
    /\ thumbs = {}
    /\ result = [op |-> "none"]
    /\ nmut = 0

\* The environment creates or rewrites a media file below the root.
FsWrite(p, st) ==
    /\ [path |-> p, size |-> st.size, mtime |-> st.mtime, birthtime |-> st.birthtime] \notin disk
    /\ disk' = {e \in disk : e.path # p}
                  \cup {[path |-> p, size |-> st.size, mtime |-> st.mtime, birthtime |-> st.birthtime]}
    /\ result' = [op |-> "none"]
    /\ UNCHANGED <<manager, catalog, host, thumbnail, nmut>>

\* The environment removes a media file.
FsRemove(p) ==
    /\ p \in DiskPaths
    /\ disk' = {e \in disk : e.path # p}
    /\ result' = [op |-> "none"]
    /\ UNCHANGED <<manager, catalog, host, thumbnail, nmut>>

\* The environment takes the read permission of a directory below the root away.
FsDeny(dir) ==
    /\ dir \notin unreadable
    /\ unreadable' = unreadable \cup {dir}
    /\ result' = [op |-> "none"]
    /\ UNCHANGED <<manager, catalog, disk, catalogDirs, peer, thumbnail, nmut>>

\* The environment gives the read permission of a directory back.
FsAllow(dir) ==
    /\ dir \in unreadable
    /\ unreadable' = unreadable \ {dir}
    /\ result' = [op |-> "none"]
    /\ UNCHANGED <<manager, catalog, disk, catalogDirs, peer, thumbnail, nmut>>

\* fs.existsSync(path.join(current, DB_FILENAME))
HasCatalog(dirs, current) == current \in dirs

\* The loop of findDbRootUpwards from its i-th round on.
RECURSIVE FindFrom(_, _, _, _)
FindFrom(dirs, current, i, levels) ==
    IF i > levels THEN [isNull |-> TRUE, dir |-> <<>>]
    ELSE IF HasCatalog(dirs, current) THEN [isNull |-> FALSE, dir |-> current]
    ELSE IF Dirname(current) = current THEN [isNull |-> TRUE, dir |-> <<>>]
    ELSE FindFrom(dirs, Dirname(current), i + 1, levels)

\* Mutant: the search goes on to the file system root.
findDbRootUpwards_Unbounded(dirs, startDir, levels) ==
    FindFrom(dirs, startDir, 0, Len(startDir))

\* findDbRootUpwards: for (let i = 0; i <= levels; i += 1)
findDbRootUpwards(dirs, startDir, levels) == FindFrom(dirs, startDir, 0, levels)

\* inspectPath: the PendingOpenInfo of a target that exists.
inspectPath(targetPath, currentRoot) ==
    IF IsDirectory(targetPath)
    THEN [kind |-> "folder", path |-> targetPath,
          inCurrentRoot |-> IF currentRoot # NoRoot THEN isInsideRoot(targetPath, RootPath)
                            ELSE FALSE,
          suggestedRoot |-> targetPath,
          foundDbRoot |-> IF HasCatalog(catalogDirs, targetPath)
                          THEN [isNull |-> FALSE, dir |-> targetPath]
                          ELSE [isNull |-> TRUE, dir |-> <<>>],
          hasFileUrl |-> FALSE]
    ELSE [kind |-> "file", path |-> targetPath,
          inCurrentRoot |-> IF currentRoot # NoRoot THEN isInsideRoot(targetPath, RootPath)
                            ELSE FALSE,
          suggestedRoot |-> Dirname(targetPath),
          foundDbRoot |-> findDbRootUpwards(catalogDirs, Dirname(targetPath), 3),
          hasFileUrl |-> TRUE]

\* The handler of library:inspect-path.
InspectPath(targetPath) ==
    /\ result' = [op |-> "inspectPath", info |-> inspectPath(targetPath, root)]
    /\ UNCHANGED <<manager, catalog, disk, host, thumbnail, nmut>>

\* The environment puts a catalog file into a directory (a library kept there).
FsCreateCatalog(dir) ==
    /\ dir \notin catalogDirs
    /\ catalogDirs' = catalogDirs \cup {dir}
    /\ result' = [op |-> "none"]
    /\ UNCHANGED <<manager, catalog, disk, unreadable, peer, thumbnail, nmut>>

\* The environment removes the catalog file of a directory other than the open root.
FsRemoveCatalog(dir) ==
    /\ dir \in catalogDirs
    /\ ~(db # NoRoot /\ dir = RootPath)
    /\ catalogDirs' = catalogDirs \ {dir}
    /\ result' = [op |-> "none"]
    /\ UNCHANGED <<manager, catalog, disk, unreadable, peer, thumbnail, nmut>>

\* LibraryManager.setRoot
SetRoot ==
    /\ root' = RootDir
    /\ playlists' = openDatabase(playlists)
    /\ db' = RootDir
    /\ libraryPlaylistId' = getLibraryPlaylistId(playlists')
    /\ catalogDirs' = catalogDirs \cup {RootPath}
    /\ result' = [op |-> "setRoot", threw |-> FALSE]
    /\ UNCHANGED <<files, sqlite_sequence, file_playlists, tags, file_tags, file_tags_sequence,
                   settings, disk, unreadable, peer, thumbnail, nmut>>

\* LibraryManager.setRoot when openDatabase throws (the folder cannot be created
\* or the file cannot be opened): this.root is assigned, this.db is not.
SetRootFails ==
    /\ root' = RootDir
    /\ result' = [op |-> "setRoot", threw |-> TRUE]
    /\ UNCHANGED <<db, libraryPlaylistId, catalog, disk, host, thumbnail, nmut>>

\* The process ends and a new one starts: a new LibraryManager and an empty
\* thumbnail queue; the catalog file and the folder stay.
Restart ==
    /\ root' = NoRoot
    /\ db' = NoRoot
    /\ libraryPlaylistId' = 0
    /\ queue' = <<>>
    /\ working' = FALSE
    /\ result' = [op |-> "none"]
    /\ UNCHANGED <<catalog, disk, host, ffmpegPath, spawned, thumbs, nmut>>

\* LibraryManager.scanLibrary
ScanLibrary ==
    IF root = NoRoot \/ db = NoRoot
    THEN /\ result' = [op |-> "scanLibrary", added |-> 0, removed |-> 0, updated |-> 0,
                        prev |-> result.op, threw |-> FALSE]
         /\ UNCHANGED <<manager, catalog, disk, host, thumbnail, nmut>>
    ELSE IF WalkThrows(unreadable)
    THEN /\ result' = [op |-> "scanLibrary", prev |-> result.op, threw |-> TRUE]
         /\ UNCHANGED <<manager, catalog, disk, host, thumbnail, nmut>>
    ELSE \E list \in collectFiles(disk) : \E now \in Times :
            LET tx == ScanTx(list, now)
            IN /\ files' = tx.files
               /\ sqlite_sequence' = tx.seq
               /\ file_playlists' = tx.fps
               /\ result' = IF tx.threw
                             THEN [op |-> "scanLibrary", prev |-> result.op, threw |-> TRUE]
                             ELSE [op |-> "scanLibrary", added |-> tx.added,
                                   removed |-> tx.removed, updated |-> tx.updated,
                                   prev |-> result.op, threw |-> FALSE]
               /\ UNCHANGED <<manager, playlists, tags, file_tags, file_tags_sequence, settings, disk, host, thumbnail, nmut>>

\* The tables as the transaction of scanLibrary has written them when a
\* statement fails: the first k files of the list have been handled, and with
\* k = Len(list) the unseen rows have been flagged and the commit fails.
ScanPartial(list, now, k) ==
    LET existing == ExistingRows
        maxOrder == MaxOrder(file_playlists, libraryPlaylistId)
        start == [files |-> files, seq |-> sqlite_sequence, fps |-> file_playlists,
                  nextOrder |-> (IF maxOrder = NULL THEN 0 ELSE maxOrder) + 1,
                  added |-> 0, updated |-> 0, seenIds |-> {}, threw |-> FALSE]
        acc == ScanLoop(start, existing, SubSeq(list, 1, k), 1, libraryPlaylistId, now)
    IN [files |-> IF k = Len(list) THEN MarkMissing(acc.files, existing, acc.seenIds) ELSE acc.files,
        seq |-> acc.seq, fps |-> acc.fps]

\* LibraryManager.scanLibrary when a statement of its transaction fails.
ScanLibraryFails ==
    /\ root # NoRoot
    /\ db # NoRoot
    /\ \E list \in collectFiles(disk) : \E now \in Times : \E k \in 0..Len(list) :
          LET before == [files |-> files, seq |-> sqlite_sequence, fps |-> file_playlists]
              tx == Rollback(before, ScanPartial(list, now, k))
          IN /\ files' = tx.files
             /\ sqlite_sequence' = tx.seq
             /\ file_playlists' = tx.fps
    /\ result' = [op |-> "scanLibrary", prev |-> result.op, threw |-> TRUE]
    /\ UNCHANGED <<manager, playlists, tags, file_tags, file_tags_sequence, settings, disk, host, thumbnail, nmut>>

\* The destinations of the subprocesses that may still write their artifact.
RunningDestinations ==
    {spawned[k].job.thumbPath : k \in {j \in 1..Len(spawned) : "exit" \notin spawned[j].events}}

\* A spawned ffmpeg writes job.thumbPath.
ProcWrite(k) ==
    /\ "exit" \notin spawned[k].events
    /\ spawned[k].job.thumbPath \notin thumbs
    /\ thumbs' = thumbs \cup {spawned[k].job.thumbPath}
    /\ result' = [op |-> "none"]
    /\ UNCHANGED <<manager, catalog, disk, host, ffmpegPath, queue, working, spawned, nmut>>

\* Mutant: the 'error' handler leaves the working flag set.
ProcError_KeepsWorking(k) ==
    /\ "error" \notin spawned[k].events
    /\ spawned' = [spawned EXCEPT ![k].events = @ \cup {"error"}]
    /\ result' = [op |-> "none"]
    /\ UNCHANGED <<manager, catalog, disk, host, ffmpegPath, queue, working, thumbs, nmut>>

\* proc.on("error"): working = false; processQueue()
ProcError(k) ==
    /\ "error" \notin spawned[k].events
    /\ LET st == processQueue([queue |-> queue, working |-> FALSE,
                               spawned |-> [spawned EXCEPT ![k].events = @ \cup {"error"}]])
       IN /\ queue' = st.queue
          /\ working' = st.working
          /\ spawned' = st.spawned
    /\ result' = [op |-> "none"]
    /\ UNCHANGED <<manager, catalog, disk, host, ffmpegPath, thumbs, nmut>>

\* proc.on("exit"): working = false; 'ready' is emitted when code === 0 and the
\* artifact exists; processQueue()
ProcExit(k, code) ==
    /\ "exit" \notin spawned[k].events
    /\ LET ready == code = 0 /\ spawned[k].job.thumbPath \in thumbs
           st == processQueue([queue |-> queue, working |-> FALSE,
                               spawned |-> [spawned EXCEPT ![k].events = @ \cup {"exit"},
                                                           ![k].code = code,
                                                           ![k].ready = ready]])
       IN /\ queue' = st.queue
          /\ working' = st.working
          /\ spawned' = st.spawned
    /\ result' = [op |-> "none"]
    /\ UNCHANGED <<manager, catalog, disk, host, ffmpegPath, thumbs, nmut>>

\* The items as returned when the running subprocesses write the artifacts in
\* `written` between the first fs.existsSync(thumbnailPath) of an item, which
\* decides thumbnailUrl, and the second, which decides thumbnailPath.
SecondExists(items, written) ==
    [i \in 1..Len(items) |->
        [items[i] EXCEPT !.hasThumbnailPath =
                            @ \/ getThumbnailPath(root, items[i].path) \in written]]

GetPlaylist(options) ==
    IF root = NoRoot \/ db = NoRoot
    THEN /\ result' = [op |-> "getPlaylist", options |-> options, items |-> <<>>, total |-> 0]
         /\ UNCHANGED <<manager, catalog, disk, host, thumbnail, nmut>>
    ELSE LET response == Response(options)
             st == EnqueueItems([queue |-> queue, working |-> working, spawned |-> spawned],
                                response.items, 1)
             destinations == {getThumbnailPath(root, response.items[i].path) :
                                 i \in 1..Len(response.items)}
         IN \E written \in SUBSET ((RunningDestinations \cap destinations) \ thumbs) :
               /\ result' = [op |-> "getPlaylist", options |-> options,
                             items |-> SecondExists(response.items, written),
                             total |-> response.total]
               /\ queue' = st.queue
               /\ working' = st.working
               /\ spawned' = st.spawned
               /\ thumbs' = thumbs \cup written
               /\ UNCHANGED <<manager, catalog, disk, host, ffmpegPath, nmut>>

\* UPDATE files SET ... WHERE id = ?: no row is touched when the id is unknown.
UpdateFile(fileId, row) == IF fileId \in FileIds THEN [files EXCEPT ![fileId] = row] ELSE files

\* Mutant: the rating is clamped to 0..5 before it is written.
SetRating_Clamps(fileId, rating) ==
    /\ nmut' = nmut + 1
    /\ files' = IF db = NoRoot THEN files
                ELSE UpdateFile(fileId, [files[fileId] EXCEPT
                        !.rating = IF rating < 0 THEN 0 ELSE IF rating > 5 THEN 5 ELSE rating])
    /\ result' = [op |-> "setRating", fileId |-> fileId, rating |-> rating, threw |-> FALSE]
    /\ UNCHANGED <<manager, playlists, sqlite_sequence, file_playlists, tags, file_tags, file_tags_sequence, settings, disk, host,
                   thumbnail>>

\* LibraryManager.setRating
SetRating(fileId, rating) ==
    /\ nmut' = nmut + 1
    /\ files' = IF db = NoRoot THEN files
                ELSE UpdateFile(fileId, [files[fileId] EXCEPT !.rating = rating])
    /\ result' = [op |-> "setRating", fileId |-> fileId, rating |-> rating, threw |-> FALSE]
    /\ UNCHANGED <<manager, playlists, sqlite_sequence, file_playlists, tags, file_tags, file_tags_sequence, settings, disk, host,
                   thumbnail>>

\* LibraryManager.setDuration
SetDuration(fileId, durationMs) ==
    /\ nmut' = nmut + 1
    /\ files' = IF db = NoRoot THEN files
                ELSE UpdateFile(fileId, [files[fileId] EXCEPT !.duration_ms = durationMs])
    /\ result' = [op |-> "setDuration", fileId |-> fileId, threw |-> FALSE]
    /\ UNCHANGED <<manager, playlists, sqlite_sequence, file_playlists, tags, file_tags, file_tags_sequence, settings, disk, host,
                   thumbnail>>

\* Mutant: last_played is written but play_count is not incremented.
SetLastPlayed_KeepsCount(fileId, now) ==
    /\ nmut' = nmut + 1
    /\ files' = IF db = NoRoot THEN files
                ELSE UpdateFile(fileId, [files[fileId] EXCEPT !.last_played = now])
    /\ result' = [op |-> "setLastPlayed", fileId |-> fileId, threw |-> FALSE]
    /\ UNCHANGED <<manager, playlists, sqlite_sequence, file_playlists, tags, file_tags, file_tags_sequence, settings, disk, host,
                   thumbnail>>

\* LibraryManager.setLastPlayed
SetLastPlayed(fileId, now) ==
    /\ nmut' = nmut + 1
    /\ fileId \in FileIds => files[fileId].play_count < MaxPlayCount
    /\ files' = IF db = NoRoot THEN files
                ELSE UpdateFile(fileId, [files[fileId] EXCEPT !.last_played = now,
                                                               !.play_count = @ + 1])
    /\ result' = [op |-> "setLastPlayed", fileId |-> fileId, threw |-> FALSE]
    /\ UNCHANGED <<manager, playlists, sqlite_sequence, file_playlists, tags, file_tags, file_tags_sequence, settings, disk, host,
                   thumbnail>>

\* SELECT id FROM tags WHERE name = ?: 0 when there is no such row.
TagIdOf(ts, tagName) ==
    IF \E i \in 1..Len(ts) : ts[i] = tagName THEN CHOOSE i \in 1..Len(ts) : ts[i] = tagName ELSE 0

\* SELECT id FROM file_tags WHERE file_id = ? AND tag_id = ?: the id of the
\* first such row, 0 when there is none.
FileTagIdOf(fts, fileId, tagId) ==
    LET S == {x.id : x \in {y \in fts : y.file_id = fileId /\ y.tag_id = tagId}}
    IN IF S = {} THEN 0 ELSE CHOOSE i \in S : \A k \in S : i <= k

\* Mutant: the INSERT does not see the UNIQUE(file_id, tag_id) constraint.
InsertFileTag_WithoutUnique(fts, seq, fileId, tagId) ==
    IF fileId \notin FileIds
    THEN [file_tags |-> fts, seq |-> seq, threw |-> TRUE]
    ELSE [file_tags |-> fts \cup {[id |-> seq + 1, file_id |-> fileId, tag_id |-> tagId]},
          seq |-> seq + 1, threw |-> FALSE]

\* INSERT OR IGNORE INTO file_tags (file_id, tag_id): the row is dropped when the
\* pair is there (UNIQUE), and the statement fails on the foreign key when the
\* file id has no row (OR IGNORE does not cover foreign keys).
InsertFileTag(fts, seq, fileId, tagId) ==
    IF FileTagIdOf(fts, fileId, tagId) # 0
    THEN [file_tags |-> fts, seq |-> seq, threw |-> FALSE]
    ELSE IF fileId \notin FileIds
    THEN [file_tags |-> fts, seq |-> seq, threw |-> TRUE]
    ELSE [file_tags |-> fts \cup {[id |-> seq + 1, file_id |-> fileId, tag_id |-> tagId]},
          seq |-> seq + 1, threw |-> FALSE]

\* Mutant: the association is ensured present, never removed.
ToggleTx_EnsuresPresent(ts, fts, seq, fileId, tagName) ==
    LET ts2 == IF TagIdOf(ts, tagName) = 0 THEN Append(ts, tagName) ELSE ts
        tagId == TagIdOf(ts2, tagName)
        ins == InsertFileTag(fts, seq, fileId, tagId)
    IN [tags |-> ts2, file_tags |-> ins.file_tags, seq |-> ins.seq, threw |-> ins.threw]

\* The statements of toggleTag on an open catalog: the tag row is inserted when
\* absent; the association is deleted by its id when present, otherwise
\* inserted. No transaction spans the statements.
ToggleTx(ts, fts, seq, fileId, tagName) ==
    LET ts2 == IF TagIdOf(ts, tagName) = 0 THEN Append(ts, tagName) ELSE ts
        tagId == TagIdOf(ts2, tagName)
        existing == FileTagIdOf(fts, fileId, tagId)
        ins == InsertFileTag(fts, seq, fileId, tagId)
    IN IF existing # 0
       THEN [tags |-> ts2, file_tags |-> {x \in fts : x.id # existing}, seq |-> seq,
             threw |-> FALSE]
       ELSE [tags |-> ts2, file_tags |-> ins.file_tags, seq |-> ins.seq, threw |-> ins.threw]

\* LibraryManager.toggleTag
ToggleTag(fileId, tagName) ==
    /\ nmut' = nmut + 1
    /\ IF db = NoRoot
       THEN /\ UNCHANGED <<tags, file_tags, file_tags_sequence>>
            /\ result' = [op |-> "toggleTag", fileId |-> fileId, tagName |-> tagName,
                          threw |-> FALSE]
       ELSE LET tx == ToggleTx(tags, file_tags, file_tags_sequence, fileId, tagName)
            IN /\ tags' = tx.tags
               /\ file_tags' = tx.file_tags
               /\ file_tags_sequence' = tx.seq
               /\ result' = [op |-> "toggleTag", fileId |-> fileId, tagName |-> tagName,
                             threw |-> tx.threw]
    /\ UNCHANGED <<manager, playlists, files, sqlite_sequence, file_playlists, settings, disk,
                   host, thumbnail>>

\* Mutant: the call does not return when no catalog is open.
AddTag_WithoutGuard(tagName) ==
    /\ nmut' = nmut + 1
    /\ tags' = IF TagIdOf(tags, tagName) # 0 THEN tags ELSE Append(tags, tagName)
    /\ result' = [op |-> "addTag", tagName |-> tagName, threw |-> FALSE]
    /\ UNCHANGED <<manager, playlists, files, sqlite_sequence, file_playlists, file_tags, file_tags_sequence, settings,
                   disk, host, thumbnail>>

\* Mutant: the row is inserted whether or not the name is there.
AddTag_InsertsAgain(tagName) ==
    /\ nmut' = nmut + 1
    /\ tags' = IF db = NoRoot THEN tags ELSE Append(tags, tagName)
    /\ result' = [op |-> "addTag", tagName |-> tagName, threw |-> FALSE]
    /\ UNCHANGED <<manager, playlists, files, sqlite_sequence, file_playlists, file_tags, file_tags_sequence, settings,
                   disk, host, thumbnail>>

\* LibraryManager.addTag: INSERT OR IGNORE INTO tags (name)
AddTag(tagName) ==
    /\ nmut' = nmut + 1
    /\ tags' = IF db = NoRoot \/ TagIdOf(tags, tagName) # 0 THEN tags ELSE Append(tags, tagName)
    /\ result' = [op |-> "addTag", tagName |-> tagName, threw |-> FALSE]
    /\ UNCHANGED <<manager, playlists, files, sqlite_sequence, file_playlists, file_tags, file_tags_sequence, settings,
                   disk, host, thumbnail>>

\* saveOrder's transaction: UPDATE file_playlists SET order_index = index WHERE
\* file_id = id AND playlist_id = ?, for every position of the list.
RECURSIVE SaveOrderLoop(_, _, _, _)
SaveOrderLoop(fps, ids, i, playlistId) ==
    IF i > Len(ids) THEN fps
    ELSE SaveOrderLoop(
            {IF m.file_id = ids[i] /\ m.playlist_id = playlistId
             THEN [m EXCEPT !.order_index = i - 1] ELSE m : m \in fps},
            ids, i + 1, playlistId)

\* LibraryManager.saveOrder
SaveOrder(fileIds) ==
    /\ nmut' = nmut + 1
    /\ file_playlists' = IF db = NoRoot THEN file_playlists
                         ELSE SaveOrderLoop(file_playlists, fileIds, 1, libraryPlaylistId)
    /\ result' = [op |-> "saveOrder", fileIds |-> fileIds, threw |-> FALSE]
    /\ UNCHANGED <<manager, playlists, files, sqlite_sequence, tags, file_tags, file_tags_sequence, settings, disk, host,
                   thumbnail>>

\* LibraryManager.getSetting: row?.value ?? null
getSetting(name) ==
    IF db = NoRoot THEN NullText
    ELSE IF \E x \in settings : x.name = name
         THEN (CHOOSE x \in settings : x.name = name).value
         ELSE NullText

\* Mutant: the write replaces the whole table.
SetSetting_DropsOtherKeys(name, value) ==
    /\ nmut' = nmut + 1
    /\ settings' = IF db = NoRoot THEN settings ELSE {[name |-> name, value |-> value]}
    /\ result' = [op |-> "setSetting", name |-> name, value |-> value, threw |-> FALSE]
    /\ UNCHANGED <<manager, playlists, files, sqlite_sequence, file_playlists, tags, file_tags, file_tags_sequence, disk, host,
                   thumbnail>>

\* LibraryManager.setSetting: INSERT ... ON CONFLICT(name) DO UPDATE SET value
SetSetting(name, value) ==
    /\ nmut' = nmut + 1
    /\ settings' = IF db = NoRoot THEN settings
                   ELSE {x \in settings : x.name # name} \cup {[name |-> name, value |-> value]}
    /\ result' = [op |-> "setSetting", name |-> name, value |-> value, threw |-> FALSE]
    /\ UNCHANGED <<manager, playlists, files, sqlite_sequence, file_playlists, tags, file_tags, file_tags_sequence, disk, host,
                   thumbnail>>

\* The code of a character and its code under COLLATE NOCASE (ASCII letters
\* folded to lower case), tabulated over the characters of the model.
CharCode(c) ==
    CASE c = " " -> 32
      [] c = "A" -> 65
      [] c = "a" -> 97
      [] c = "|" -> 124
      [] OTHER -> 0
FoldCode(c) == IF c = "A" THEN 97 ELSE CharCode(c)

\* Whether name a sorts before name b under ORDER BY t.name COLLATE NOCASE ASC,
\* t.name ASC: position by position on the folded codes, the exact codes
\* deciding between names that fold to the same text.
RECURSIVE CodesLess(_, _, _, _)
CodesLess(a, b, i, folded) ==
    LET code(c) == IF folded THEN FoldCode(c) ELSE CharCode(c)
    IN IF i > Len(a) THEN i <= Len(b)
       ELSE IF i > Len(b) THEN FALSE
       ELSE IF code(a[i]) # code(b[i]) THEN code(a[i]) < code(b[i])
       ELSE CodesLess(a, b, i + 1, folded)
RECURSIVE CodesEqual(_, _, _)
CodesEqual(a, b, i) ==
    IF i > Len(a) \/ i > Len(b) THEN Len(a) = Len(b)
    ELSE FoldCode(a[i]) = FoldCode(b[i]) /\ CodesEqual(a, b, i + 1)
TagNameLess(a, b) ==
    CodesLess(a, b, 1, TRUE) \/ (CodesEqual(a, b, 1) /\ CodesLess(a, b, 1, FALSE))

\* The tag ids of S in the order of getTopTags' ORDER BY; rows whose names are
\* equal keep the order of their ids.
RECURSIVE TagOrder(_)
TagOrder(S) ==
    IF S = {} THEN <<>>
    ELSE LET m == CHOOSE x \in S : \A y \in S \ {x} :
                      TagNameLess(tags[x], tags[y]) \/ (tags[x] = tags[y] /\ x < y)
         IN <<m>> \o TagOrder(S \ {m})

\* LibraryManager.getTopTags: SELECT t.name FROM tags t GROUP BY t.id ORDER BY ...
getTopTags ==
    IF db = NoRoot THEN <<>>
    ELSE LET ids == TagOrder(1..Len(tags)) IN [k \in 1..Len(ids) |-> tags[ids[k]]]

\* The file ids callers pass: the first id of the catalog and the first id without a row.
IdInputs == {1, sqlite_sequence + 1}

Reverse(seq) == [i \in 1..Len(seq) |-> seq[Len(seq) + 1 - i]]

\* The lists saveOrder is called with: every id of the catalog in descending
\* order, and a list naming an id without a row.
OrderInputs == {Reverse(Ascending(FileIds)), <<sqlite_sequence + 1>>}

Sorts == {"playlist", "filename", "created", "random"}

\* What the environment writes: each media path with the stat of its file.
WriteInputs ==
    {<<"a.mp4", [size |-> 10, mtime |-> 1, birthtime |-> 1]>>,
     <<"B.MKV", [size |-> 10, mtime |-> 1, birthtime |-> 1]>>,
     <<"d/a.mp4", [size |-> 20, mtime |-> 2, birthtime |-> 2]>>}

\* The requests that the getPlaylist action is called with.
CalledRequests ==
    {[sort |-> "playlist", ratingMin |-> 0, tags |-> <<>>, limit |-> 0, offset |-> 0, seed |-> 1]}

Environment ==
    \/ \E w \in WriteInputs : FsWrite(w[1], w[2])
    \/ \E p \in MediaPaths : FsRemove(p)

Mutation ==
    \/ \E f \in IdInputs, r \in RatingInputs : SetRating(f, r)
    \/ \E f \in IdInputs, d \in DurationInputs : SetDuration(f, d)
    \/ \E f \in IdInputs, now \in Times : SetLastPlayed(f, now)
    \/ \E f \in IdInputs, t \in TagNames : ToggleTag(f, t)
    \/ \E t \in TagNames : AddTag(t)
    \/ \E ids \in OrderInputs : SaveOrder(ids)
    \/ \E n \in SettingNames, v \in SettingValues : SetSetting(n, v)

Next ==
    \/ Environment
    \/ root = NoRoot /\ SetRoot
    \/ ScanLibrary
    \/ \E options \in CalledRequests : GetPlaylist(options)
    \/ nmut < MaxMutations /\ Mutation

Spec == Init /\ [][Next]_vars

\* ------------------------------------------------------------ queries on a populated library
\* The second specification starts from a library folder that already holds the
\* three media files and follows the catalog through scans, the loss and return
\* of one file, and the mutations the filters and sort orders read.
QueryInit ==
    /\ root = NoRoot
    /\ db = NoRoot
    /\ libraryPlaylistId = 0
    /\ playlists = <<>>
    /\ files = <<>>
    /\ sqlite_sequence = 0
    /\ file_playlists = {}
    /\ tags = <<>>
    /\ file_tags = {}
    /\ file_tags_sequence = 0
    /\ settings = {}
    /\ unreadable = {}
    /\ catalogDirs = {}
    /\ peer = PeerClosed
    /\ disk = {[path |-> w[1], size |-> w[2].size, mtime |-> w[2].mtime,
                birthtime |-> w[2].birthtime] : w \in WriteInputs}
    /\ ffmpegPath = FALSE
    /\ queue = <<>>
    /\ working = FALSE
    /\ spawned = <<>>
    /\ thumbs = {}
    /\ result = [op |-> "none"]
    /\ nmut = 0

\* The file that comes and goes in the second specification.
VolatilePaths == {"d/a.mp4"}

\* The ids callers pass in the second specification: every id handed out so far.
QueryIdInputs == 1..sqlite_sequence

\* Seeds of the random order: the default, a seed whose keys wrap around the
\* modulus, the modulus itself (every key 0), a negative seed and zero.
QuerySeeds == {1, 1073741824, Modulus, -3, 0}

\* The requests the getPlaylist action is called with in the second specification.
QueryCalls ==
    {[sort |-> "random", ratingMin |-> 0, tags |-> <<>>, limit |-> 2, offset |-> 1, seed |-> -3],
     [sort |-> "filename", ratingMin |-> 3, tags |-> <<>>, limit |-> 1, offset |-> 0, seed |-> 1],
     [sort |-> "created", ratingMin |-> 0, tags |-> <<>>, limit |-> 0, offset |-> 0, seed |-> 1]}

\* The lists saveOrder is called with in the second specification: every id in
\* descending order (a full reorder), and the ids after the first in ascending
\* order (the reorder of a filtered list).
QueryOrderInputs == {Reverse(Ascending(FileIds)), Ascending(FileIds \ {1})}

QueryEnvironment ==
    \/ \E w \in {x \in WriteInputs : x[1] \in VolatilePaths} : FsWrite(w[1], w[2])
    \/ \E p \in VolatilePaths : FsRemove(p)

QueryMutation ==
    \/ \E f \in QueryIdInputs, r \in RatingInputs : SetRating(f, r)
    \/ \E f \in QueryIdInputs, t \in TagNames : ToggleTag(f, t)
    \/ \E ids \in QueryOrderInputs : SaveOrder(ids)

QueryNext ==
    \/ QueryEnvironment
    \/ root = NoRoot /\ SetRoot
    \/ ScanLibrary
    \/ \E options \in QueryCalls : GetPlaylist(options)
    \/ nmut < MaxQueryMutations /\ QueryMutation

QuerySpec == QueryInit /\ [][QueryNext]_vars

\* ------------------------------------------------------------ failing scans and unchecked ratings
\* The third specification starts from the same library folder and adds the scan
\* whose transaction fails and ratings outside 0..5.
MaxFaultMutations == 2

\* The largest rating the interface offers and ratings outside its range.
FaultRatingInputs == {5, 7, -2}

\* The requests the getPlaylist action is called with in the third specification.
FaultCalls ==
    {[sort |-> "playlist", ratingMin |-> 5, tags |-> <<>>, limit |-> 0, offset |-> 0, seed |-> 1],
     [sort |-> "playlist", ratingMin |-> 1, tags |-> <<>>, limit |-> 0, offset |-> 0, seed |-> 1]}

FaultMutation ==
    \/ \E f \in QueryIdInputs, r \in FaultRatingInputs : SetRating(f, r)
    \/ \E f \in QueryIdInputs, t \in TagNames : ToggleTag(f, t)

FaultNext ==
    \/ QueryEnvironment
    \/ root = NoRoot /\ SetRoot
    \/ ScanLibrary
    \/ ScanLibraryFails
    \/ \E options \in FaultCalls : GetPlaylist(options)
    \/ nmut < MaxFaultMutations /\ FaultMutation

FaultSpec == QueryInit /\ [][FaultNext]_vars

\* ------------------------------------------------------------ openings and restarts
\* The fourth specification follows one library folder through openings that
\* succeed or fail, restarts of the process, scans and the whole Mutation API,
\* called with or without an open catalog.
LifecycleSettingNames == {"ui.sort", "ui.current_media_path"}
LifecycleSettingValues == {"created", NullText}

LifecycleWrites == {x \in WriteInputs : x[1] = "a.mp4"}

LifecycleMutation ==
    \/ \E f \in IdInputs, r \in RatingInputs : SetRating(f, r)
    \/ \E f \in IdInputs, d \in DurationInputs : SetDuration(f, d)
    \/ \E f \in IdInputs, now \in Times : SetLastPlayed(f, now)
    \/ \E f \in IdInputs, t \in TagNames : ToggleTag(f, t)
    \/ \E t \in TagNames : AddTag(t)
    \/ \E ids \in OrderInputs : SaveOrder(ids)
    \/ \E n \in LifecycleSettingNames, v \in LifecycleSettingValues : SetSetting(n, v)

LifecycleNext ==
    \/ \E w \in LifecycleWrites : FsWrite(w[1], w[2])
    \/ SetRoot
    \/ SetRootFails
    \/ Restart
    \/ ScanLibrary
    \/ \E options \in CalledRequests : GetPlaylist(options)
    \/ nmut < MaxLifecycleMutations /\ LifecycleMutation

LifecycleSpec == Init /\ [][LifecycleNext]_vars

\* ------------------------------------------------------------ the walk of the folder
\* The fifth specification follows scans of a folder whose files come and go,
\* with a nested directory named .cache and directories that cannot be read.
WalkWrites == WriteInputs \cup {<<"d/.cache/w.mp4", [size |-> 30, mtime |-> 3, birthtime |-> 3]>>}
WalkDirs == {"d", ".cache"}

WalkEnvironment ==
    \/ \E w \in WalkWrites : FsWrite(w[1], w[2])
    \/ \E w \in WalkWrites : FsRemove(w[1])
    \/ \E dir \in WalkDirs : FsDeny(dir)
    \/ \E dir \in WalkDirs : FsAllow(dir)

WalkNext ==
    \/ WalkEnvironment
    \/ root = NoRoot /\ SetRoot
    \/ ScanLibrary
    \/ \E options \in CalledRequests : GetPlaylist(options)

WalkSpec == Init /\ [][WalkNext]_vars

\* ------------------------------------------------------------ a second instance
\* The seventh specification runs a second instance of the app on the same
\* catalog file. Its calls are taken statement by statement, so that the calls
\* of the first instance fall between its reads and its writes; SQLite runs
\* each statement, and each transaction, on the tables as they are when it runs.
MaxPeerOps == 3
MaxPeerMutations == 2
PeerWrites == {x \in WriteInputs : x[1] \in {"a.mp4", "B.MKV"}}
PeerIdInputs == {1, 2}
PeerTagNames == {<<"a">>}

\* The second instance returns from a call.
PeerReturn(last, threw) ==
    [peer EXCEPT !.pc = "idle", !.last = last, !.threw = threw, !.local = NoLocals]

\* openDatabase of the second instance: SELECT id FROM playlists WHERE name = 'Library'
PeerOpenSelect ==
    /\ peer.pc = "closed"
    /\ peer' = [peer EXCEPT !.pc = IF \E i \in 1..Len(playlists) : playlists[i] = LibraryName
                                   THEN "getLibraryPlaylistId" ELSE "insertLibrary"]
    /\ catalogDirs' = catalogDirs \cup {RootPath}
    /\ result' = [op |-> "none"]
    /\ UNCHANGED <<manager, catalog, disk, unreadable, thumbnail, nmut>>

\* openDatabase of the second instance: INSERT INTO playlists, when its SELECT found no row.
PeerOpenInsert ==
    /\ peer.pc = "insertLibrary"
    /\ playlists' = Append(playlists, LibraryName)
    /\ peer' = [peer EXCEPT !.pc = "getLibraryPlaylistId"]
    /\ result' = [op |-> "none"]
    /\ UNCHANGED <<manager, files, sqlite_sequence, file_playlists, tags, file_tags,
                   file_tags_sequence, settings, disk, unreadable, catalogDirs, thumbnail, nmut>>

\* setRoot of the second instance: this.libraryPlaylistId = getLibraryPlaylistId(this.db)
PeerGetLibraryPlaylistId ==
    /\ peer.pc = "getLibraryPlaylistId"
    /\ peer' = [PeerReturn("setRoot", FALSE) EXCEPT
                  !.libraryPlaylistId = getLibraryPlaylistId(playlists)]
    /\ result' = [op |-> "none"]
    /\ UNCHANGED <<manager, catalog, disk, unreadable, catalogDirs, thumbnail, nmut>>

\* The existing rows as an instance with the given Library id selects them.
ExistingRowsOf(playlistId) ==
    [i \in FileIds |-> [id |-> i, path |-> files[i].path,
                         order_index |-> OrderIndexOf(file_playlists, i, playlistId)]]

\* scanLibrary of the second instance up to its transaction: the walk and the
\* two SELECTs.
PeerScanRead ==
    /\ peer.pc = "idle"
    /\ peer.ops < MaxPeerOps
    /\ IF WalkThrows(unreadable)
       THEN peer' = [PeerReturn("scanLibrary", TRUE) EXCEPT !.ops = @ + 1]
       ELSE \E list \in collectFiles(disk) :
               peer' = [peer EXCEPT !.pc = "tx", !.ops = @ + 1,
                           !.local = [NoLocals EXCEPT
                               !.list = list,
                               !.existing = ExistingRowsOf(peer.libraryPlaylistId),
                               !.nextOrder = NextOrder(file_playlists, peer.libraryPlaylistId)]]
    /\ result' = [op |-> "none"]
    /\ UNCHANGED <<manager, catalog, disk, unreadable, catalogDirs, thumbnail, nmut>>

\* scanLibrary of the second instance: tx().
PeerScanTx ==
    /\ peer.pc = "tx"
    /\ \E now \in Times :
          LET tx == ScanTxOn(peer.local.list, peer.local.existing, peer.local.nextOrder,
                             peer.libraryPlaylistId, now)
          IN /\ files' = tx.files
             /\ sqlite_sequence' = tx.seq
             /\ file_playlists' = tx.fps
             /\ peer' = PeerReturn("scanLibrary", tx.threw)
    /\ result' = [op |-> "none"]
    /\ UNCHANGED <<manager, playlists, tags, file_tags, file_tags_sequence, settings, disk,
                   unreadable, catalogDirs, thumbnail, nmut>>

\* toggleTag of the second instance: SELECT id FROM tags WHERE name = ?
PeerToggleSelectTag(fileId, tagName) ==
    /\ peer.pc = "idle"
    /\ peer.ops < MaxPeerOps
    /\ peer' = [peer EXCEPT !.pc = IF TagIdOf(tags, tagName) = 0 THEN "insertTag"
                                   ELSE "selectFileTag",
                            !.ops = @ + 1,
                            !.local = [NoLocals EXCEPT !.fileId = fileId, !.tagName = tagName,
                                                       !.tagId = TagIdOf(tags, tagName)]]
    /\ result' = [op |-> "none"]
    /\ UNCHANGED <<manager, catalog, disk, unreadable, catalogDirs, thumbnail, nmut>>

\* toggleTag of the second instance: INSERT INTO tags (name), which fails on
\* UNIQUE when the name has a row by now.
PeerToggleInsertTag ==
    /\ peer.pc = "insertTag"
    /\ IF TagIdOf(tags, peer.local.tagName) # 0
       THEN /\ peer' = PeerReturn("toggleTag", TRUE)
            /\ UNCHANGED tags
       ELSE /\ tags' = Append(tags, peer.local.tagName)
            /\ peer' = [peer EXCEPT !.pc = "selectFileTag", !.local.tagId = Len(tags) + 1]
    /\ result' = [op |-> "none"]
    /\ UNCHANGED <<manager, playlists, files, sqlite_sequence, file_playlists, file_tags,
                   file_tags_sequence, settings, disk, unreadable, catalogDirs, thumbnail, nmut>>

\* toggleTag of the second instance: SELECT id FROM file_tags WHERE file_id = ? AND tag_id = ?
PeerToggleSelectFileTag ==
    /\ peer.pc = "selectFileTag"
    /\ peer' = [peer EXCEPT !.pc = "writeFileTag",
                            !.local.existingId =
                                FileTagIdOf(file_tags, peer.local.fileId, peer.local.tagId)]
    /\ result' = [op |-> "none"]
    /\ UNCHANGED <<manager, catalog, disk, unreadable, catalogDirs, thumbnail, nmut>>

\* toggleTag of the second instance: DELETE FROM file_tags WHERE id = ?, or
\* INSERT OR IGNORE INTO file_tags.
PeerToggleWriteFileTag ==
    /\ peer.pc = "writeFileTag"
    /\ IF peer.local.existingId # 0
       THEN /\ file_tags' = {x \in file_tags : x.id # peer.local.existingId}
            /\ UNCHANGED file_tags_sequence
            /\ peer' = PeerReturn("toggleTag", FALSE)
       ELSE LET ins == InsertFileTag(file_tags, file_tags_sequence, peer.local.fileId,
                                     peer.local.tagId)
            IN /\ file_tags' = ins.file_tags
               /\ file_tags_sequence' = ins.seq
               /\ peer' = PeerReturn("toggleTag", ins.threw)
    /\ result' = [op |-> "none"]
    /\ UNCHANGED <<manager, playlists, files, sqlite_sequence, file_playlists, tags, settings,
                   disk, unreadable, catalogDirs, thumbnail, nmut>>

PeerStep ==
    \/ PeerOpenSelect
    \/ PeerOpenInsert
    \/ PeerGetLibraryPlaylistId
    \/ PeerScanRead
    \/ PeerScanTx
    \/ \E f \in PeerIdInputs, t \in PeerTagNames : PeerToggleSelectTag(f, t)
    \/ PeerToggleInsertTag
    \/ PeerToggleSelectFileTag
    \/ PeerToggleWriteFileTag

PeerMutation ==
    \/ \E f \in PeerIdInputs, t \in PeerTagNames : ToggleTag(f, t)
    \/ \E t \in PeerTagNames : AddTag(t)

PeerNext ==
    \/ \E w \in PeerWrites : FsWrite(w[1], w[2])
    \/ FsRemove("a.mp4")
    \/ root = NoRoot /\ SetRoot
    \/ ScanLibrary
    \/ nmut < MaxPeerMutations /\ PeerMutation
    \/ PeerStep

PeerSpec == Init /\ [][PeerNext]_vars

\* ------------------------------------------------------------ thumbnail worker
\* The eighth specification follows the thumbnail queue with ffmpeg present:
\* getPlaylist enqueues, processQueue spawns, and every spawned subprocess may
\* write its artifact and emit 'error' and 'exit', each at most once and in
\* either order (the 'exit' event may or may not fire after an 'error').
MaxThumbJobs == 3
ExitCodes == {0, 1}
ThumbMedia == {x \in WriteInputs : x[1] \in {"a.mp4", "B.MKV"}}

ThumbInit ==
    /\ root = NoRoot
    /\ db = NoRoot
    /\ libraryPlaylistId = 0
    /\ playlists = <<>>
    /\ files = <<>>
    /\ sqlite_sequence = 0
    /\ file_playlists = {}
    /\ tags = <<>>
    /\ file_tags = {}
    /\ file_tags_sequence = 0
    /\ settings = {}
    /\ unreadable = {}
    /\ catalogDirs = {}
    /\ peer = PeerClosed
    /\ disk = {[path |-> w[1], size |-> w[2].size, mtime |-> w[2].mtime,
                birthtime |-> w[2].birthtime] : w \in ThumbMedia}
    /\ ffmpegPath = TRUE
    /\ queue = <<>>
    /\ working = FALSE
    /\ spawned = <<>>
    /\ thumbs = {}
    /\ result = [op |-> "none"]
    /\ nmut = 0

ThumbNext ==
    \/ root = NoRoot /\ SetRoot
    \/ ScanLibrary
    \/ Len(queue) + Len(spawned) < MaxThumbJobs
          /\ \E options \in CalledRequests : GetPlaylist(options)
    \/ \E k \in 1..Len(spawned) : ProcWrite(k)
    \/ \E k \in 1..Len(spawned) : ProcError(k)
    \/ \E k \in 1..Len(spawned), code \in ExitCodes : ProcExit(k, code)

ThumbSpec == ThumbInit /\ [][ThumbNext]_vars

\* Every spawned subprocess eventually emits 'exit' or 'error'.
FirstEvent ==
    \E k \in 1..Len(spawned) :
        /\ spawned[k].events = {}
        /\ ProcError(k) \/ \E code \in ExitCodes : ProcExit(k, code)

ThumbFairSpec == ThumbInit /\ [][ThumbNext]_vars /\ WF_vars(FirstEvent)

\* ------------------------------------------------------------ opening a path
\* The sixth specification follows inspectPath over a chain of directories in
\* which catalog files come and go.
InspectNext ==
    \/ \E dir \in Dirs : FsCreateCatalog(dir)
    \/ \E dir \in Dirs : FsRemoveCatalog(dir)
    \/ root = NoRoot /\ SetRoot
    \/ \E targetPath \in Targets : InspectPath(targetPath)

InspectSpec == Init /\ [][InspectNext]_vars

\* ------------------------------------------------------------ scan claims
\* The relative paths of the snapshot a scan of the current disk works on.
SnapshotPaths == {e.path : e \in MediaOnDisk(disk)}
CatalogPaths == {files[i].path : i \in FileIds}
LibraryMembers == {m \in file_playlists : m.playlist_id = libraryPlaylistId}
MembershipsOf(fileId) == {m \in LibraryMembers : m.file_id = fileId}
\* A step of scanLibrary on an open catalog.
ScanStep == result'.op = "scanLibrary" /\ db # NoRoot
\* A scan that directly follows a scan, the disk not touched in between.
SecondScanStep == ScanStep /\ result.op = "scanLibrary" /\ result'.prev = "scanLibrary"
\* The request for the whole catalog in playlist order.
WholeCatalog ==
    [sort |-> "playlist", ratingMin |-> 0, tags |-> <<>>, limit |-> 0, offset |-> 0, seed |-> 1]

\* C1 (as claimed): a scan that directly follows a scan of the same snapshot
\* returns added = 0 and removed = 0 and leaves the number of file rows and the
\* number of Library memberships unchanged.
C1_SecondScanReportsNothing ==
    [][SecondScanStep =>
          /\ result'.added = 0
          /\ result'.removed = 0
          /\ Cardinality(DOMAIN files') = Cardinality(DOMAIN files)
          /\ Cardinality(LibraryMembers') = Cardinality(LibraryMembers)]_vars

\* C1 (amended): a scan that directly follows a scan of the same snapshot returns
\* added = 0 and removed = the number of rows whose path is absent from the
\* snapshot (it does not fail), and leaves the number of file rows and of
\* memberships unchanged.
C1_SecondScanAddsNothing ==
    [][SecondScanStep =>
          /\ ~result'.threw
          /\ result'.added = 0
          /\ result'.removed = Cardinality({i \in DOMAIN files : files[i].path \notin SnapshotPaths})
          /\ Cardinality(DOMAIN files') = Cardinality(DOMAIN files)
          /\ Cardinality(LibraryMembers') = Cardinality(LibraryMembers)]_vars

\* C1 witness: a second scan in a row has run on a catalog that holds a row seen
\* and a row no longer on disk.
C1_Witness ==
    /\ db # NoRoot
    /\ result.op = "scanLibrary"
    /\ result.prev = "scanLibrary"
    /\ result.updated >= 1
    /\ \E i \in FileIds : files[i].path \notin SnapshotPaths

\* C2: right after a scan of an open catalog, a row is flagged missing exactly
\* when its relative path is absent from the snapshot of that scan.
C2_MissingIffUnseen ==
    (result.op = "scanLibrary" /\ db # NoRoot) =>
        \A i \in FileIds : (files[i].is_missing = 1) <=> (files[i].path \notin SnapshotPaths)

\* C2 witness: one scan has inserted a row, revisited a row and flagged a row.
C2_Witness ==
    /\ db # NoRoot
    /\ result.op = "scanLibrary"
    /\ result.added >= 1
    /\ result.updated >= 1
    /\ \E i \in FileIds : files[i].is_missing = 1

\* C3: no step removes a file row or changes the id or the relative path of one.
C3_RowsAreKept ==
    [][\A i \in DOMAIN files : i \in DOMAIN files' /\ files'[i].path = files[i].path]_vars

\* C3 witness: a catalog of several rows, one of them flagged missing by a scan,
\* on which a mutation has run.
C3_Witness ==
    /\ Cardinality(FileIds) >= 2
    /\ \E i \in FileIds : files[i].is_missing = 1
    /\ nmut >= 1
    /\ result.op \notin {"none", "scanLibrary", "getPlaylist", "setRoot"}

\* The response to a request holds an item for the file id.
Returned(options, id) == \E k \in 1..Len(RowIds(options)) : RowIds(options)[k] = id

\* C5: a scan changes no row's id, path, rating, play count, tags or order index;
\* it flags the rows whose file is gone, and a flagged row whose path is on disk
\* again has its flag cleared and is returned by the following query with the
\* rating, tags and order index it had.
C5_ReinstatedRowKeepsItsData ==
    [][ScanStep =>
          \A i \in DOMAIN files :
             /\ i \in DOMAIN files'
             /\ files'[i].path = files[i].path
             /\ files'[i].rating = files[i].rating
             /\ files'[i].play_count = files[i].play_count
             /\ TagNamesOf(i)' = TagNamesOf(i)
             /\ MembershipsOf(i) # {} => MembershipsOf(i)' = MembershipsOf(i)
             /\ (files[i].is_missing = 0 /\ files[i].path \notin SnapshotPaths) =>
                    /\ files'[i].is_missing = 1
                    /\ ~Returned(WholeCatalog, i)'
             /\ (files[i].is_missing = 1 /\ files[i].path \in SnapshotPaths) =>
                    /\ files'[i].is_missing = 0
                    /\ Returned(WholeCatalog, i)'
                    /\ Item(i)'.rating = files[i].rating
                    /\ Item(i)'.tags = ItemTags(GroupConcat(i))
                    /\ Item(i)'.orderIndex = Item(i).orderIndex]_vars

\* C5 witness: a row with a rating or a tag was flagged missing by a scan and its
\* file is on disk again, so that the next scan reinstates it.
C5_Witness ==
    /\ db # NoRoot
    /\ \E i \in FileIds :
          /\ files[i].is_missing = 1
          /\ files[i].path \in SnapshotPaths
          /\ MembershipsOf(i) # {}
          /\ files[i].rating # 0 \/ TagNamesOf(i) # {}

\* The disk holds the snapshot of the last scan with the file of row i renamed to q.
RenamedSinceLastScan(i, q) ==
    /\ files[i].is_missing = 0
    /\ q \notin CatalogPaths
    /\ SnapshotPaths = ({files[j].path : j \in {k \in FileIds : files[k].is_missing = 0}}
                          \ {files[i].path}) \cup {q}

\* C6: when the file of a row seen by the last scan has been renamed to a path
\* never cataloged, the next scan adds exactly one row: the old row is flagged
\* missing and keeps its rating and tags, the new path gets a new id with rating
\* 0, no tags and one new Library membership, and the scan reports added = 1.
C6_RenameAddsOneRow ==
    [][ScanStep =>
          \A i \in DOMAIN files : \A q \in SnapshotPaths :
             RenamedSinceLastScan(i, q) =>
                /\ Cardinality(DOMAIN files') = Cardinality(DOMAIN files) + 1
                /\ files'[i].path = files[i].path
                /\ files'[i].is_missing = 1
                /\ files'[i].rating = files[i].rating
                /\ TagNamesOf(i)' = TagNamesOf(i)
                /\ \E n \in DOMAIN files' \ DOMAIN files :
                      /\ n > sqlite_sequence
                      /\ files'[n].path = q
                      /\ files'[n].is_missing = 0
                      /\ files'[n].rating = 0
                      /\ TagNamesOf(n)' = {}
                      /\ Cardinality(MembershipsOf(n)') = 1
                      /\ MembershipsOf(n) = {}
                /\ result'.added = 1]_vars

\* C6 witness: the file of a row that carries a rating or a tag has been renamed
\* since the last scan, which had seen it.
C6_Witness ==
    /\ db # NoRoot
    /\ \E i \in FileIds : \E q \in SnapshotPaths :
          /\ RenamedSinceLastScan(i, q)
          /\ files[i].rating # 0 \/ TagNamesOf(i) # {}

\* ------------------------------------------------------------ query claims
Request(sort, ratingMin, tagList, limit, offset, seed) ==
    [sort |-> sort, ratingMin |-> ratingMin, tags |-> tagList, limit |-> limit,
     offset |-> offset, seed |-> seed]
\* Every sort mode, the random one with every seed.
SortSeeds == {<<m, 1>> : m \in Sorts \ {"random"}} \cup {<<"random", x>> : x \in QuerySeeds}
QueryRatings == {0, 3}
QueryTagLists == {<<>>, << <<"a">> >>, << <<"A">> >>, << <<"a">>, <<"A">> >>}
\* A list that names one tag twice.
RepeatedTagLists == {<< <<"a">>, <<"a">> >>}
\* <<limit, offset>>: no paging, and pages inside and across the end of the result.
QueryPages == {<<0, 0>>, <<1, 1>>, <<2, 0>>}
PageSizes == {1, 2}
\* <<ratingMin, tags>> of the paged requests: no filter, and a rating filter.
PagedFilters == {<<0, <<>>>>, <<3, <<>>>>}
NonMissing == {i \in FileIds : files[i].is_missing = 0}
\* The file carries every tag the list names.
Carries(i, tagList) == \A k \in 1..Len(tagList) : tagList[k] \in TagNamesOf(i)
PassesRating(i, ratingMin) == ratingMin <= 0 \/ files[i].rating >= ratingMin
ItemIds(items) == [k \in 1..Len(items) |-> items[k].id]
\* A getPlaylist call on the open catalog has just returned.
Queried == result.op = "getPlaylist" /\ db # NoRoot

\* C4: for every request no returned item is flagged missing and total counts
\* no missing file: it is at most the number of rows not flagged, and exactly
\* that number when the request filters nothing.
C4_MissingFilesAreExcluded ==
    /\ \A m \in Sorts : \A r \in QueryRatings : \A tl \in {<<>>, << <<"a">> >>} :
       \A pg \in QueryPages :
          LET req == Request(m, r, tl, pg[1], pg[2], 1)
              ids == RowIds(req)
          IN /\ \A k \in 1..Len(ids) : files[ids[k]].is_missing = 0
             /\ TotalOf(req) <= Cardinality(NonMissing)
             /\ (r = 0 /\ tl = <<>>) => TotalOf(req) = Cardinality(NonMissing)
    /\ Queried =>
          /\ \A k \in 1..Len(result.items) : files[result.items[k].id].is_missing = 0
          /\ result.total <= Cardinality(NonMissing)

\* C4 witness: a query has returned items from a catalog that holds a row
\* flagged missing.
C4_Witness ==
    /\ Queried
    /\ \E i \in FileIds : files[i].is_missing = 1
    /\ Len(result.items) >= 1
    /\ result.total = Cardinality(NonMissing)
    /\ result.total < Cardinality(FileIds)

\* C7: for every requested tag list, a file that is not missing and passes the
\* rating filter is returned exactly when it carries every tag the list names,
\* names compared case-sensitively.
C7_TagFilterIsConjunction ==
    \A r \in QueryRatings : \A tl \in QueryTagLists \cup RepeatedTagLists :
       LET req == Request("playlist", r, tl, 0, 0, 1)
       IN \A i \in FileIds :
             (files[i].is_missing = 0 /\ PassesRating(i, r)) =>
                 (Returned(req, i) <=> Carries(i, tl))

\* C8: total is the length of the result the request returns without a limit,
\* whatever its limit, offset, sort and seed, and for a list of distinct tag
\* names it is the number of rows not missing that pass the rating filter and
\* carry every listed tag.
C8_TotalMatchesFilter ==
    /\ \A r \in QueryRatings : \A tl \in QueryTagLists \cup RepeatedTagLists :
          LET whole == Len(RowIds(Request("playlist", r, tl, 0, 0, 1)))
          IN /\ \A ss \in SortSeeds :
                   /\ \A pg \in QueryPages :
                         TotalOf(Request(ss[1], r, tl, pg[1], pg[2], ss[2])) = whole
                   /\ Len(RowIds(Request(ss[1], r, tl, 0, 0, ss[2]))) = whole
             /\ tl \in QueryTagLists =>
                   whole = Cardinality({i \in NonMissing : PassesRating(i, r) /\ Carries(i, tl)})
    /\ Queried =>
          result.total = Len(RowIds([result.options EXCEPT !.limit = 0, !.offset = 0]))

\* C8 witness: a query limited to one item reports a total of two.
C8_Witness ==
    /\ Queried
    /\ result.options.limit = 1
    /\ result.options.ratingMin > 0
    /\ Len(result.items) = 1
    /\ result.total = 2
    /\ Cardinality(FileIds) > 2

RawKey(id, seed) == IF seed < 0 THEN 0 - MulMod(id, 0 - seed) ELSE MulMod(id, seed)

OrderedFilters == {<<0, <<>>>>, <<0, << <<"a">> >>>>}
\* The order index a query reads for a file: COALESCE(fp.order_index, 0).
IndexOf(i) == Item(i).orderIndex

\* C11: under the playlist, filename and created sorts the returned ids are in
\* strictly ascending order of (order index, id), of (case-insensitive name, id)
\* and in strictly descending order of (creation time, id), so the set of
\* returned ids fixes the sequence.
C11_SortOrdersAreStrict ==
    /\ \A f \in OrderedFilters :
          LET byIndex == RowIds(Request("playlist", f[1], f[2], 0, 0, 1))
              byName == RowIds(Request("filename", f[1], f[2], 0, 0, 1))
              byTime == RowIds(Request("created", f[1], f[2], 0, 0, 1))
              Ids(q) == {q[k] : k \in 1..Len(q)}
          IN /\ \A k \in 1..(Len(byIndex) - 1) :
                   \/ IndexOf(byIndex[k]) < IndexOf(byIndex[k + 1])
                   \/ /\ IndexOf(byIndex[k]) = IndexOf(byIndex[k + 1])
                      /\ byIndex[k] < byIndex[k + 1]
             /\ \A k \in 1..(Len(byName) - 1) :
                   \/ NoCaseRank(files[byName[k]].name) < NoCaseRank(files[byName[k + 1]].name)
                   \/ /\ NoCaseRank(files[byName[k]].name) = NoCaseRank(files[byName[k + 1]].name)
                      /\ byName[k] < byName[k + 1]
             /\ \A k \in 1..(Len(byTime) - 1) :
                   \/ files[byTime[k]].created_ms > files[byTime[k + 1]].created_ms
                   \/ /\ files[byTime[k]].created_ms = files[byTime[k + 1]].created_ms
                      /\ byTime[k] > byTime[k + 1]
             /\ Ids(byIndex) = Ids(byName)
             /\ Ids(byName) = Ids(byTime)
    /\ (Queried /\ result.options.sort = "created") =>
          \A k \in 1..(Len(result.items) - 1) :
             \/ result.items[k].createdMs > result.items[k + 1].createdMs
             \/ /\ result.items[k].createdMs = result.items[k + 1].createdMs
                /\ result.items[k].id > result.items[k + 1].id

\* C11 witness: a query sorted by creation time has returned three items, two of
\* them with the same creation time.
C11_Witness ==
    /\ Queried
    /\ result.options.sort = "created"
    /\ Len(result.items) = 3
    /\ \E k \in 1..2 : result.items[k].createdMs = result.items[k + 1].createdMs

\* <<limit, offset>> of the paged requests: pages inside the result, across its
\* end and past it, and requests without a limit.
SlicePages == {<<1, 0>>, <<1, 1>>, <<2, 1>>, <<2, 3>>, <<5, 0>>, <<0, 0>>, <<0, 2>>}
Max(a, b) == IF a > b THEN a ELSE b

\* C12: with limit L > 0 the returned items are the items at positions O .. O+L-1
\* of the whole ordered filtered result, fewer when it ends earlier and none
\* when O is past its end; without a limit the whole result is returned.
C12_PageIsSliceOfWhole ==
    /\ \A m \in Sorts : \A f \in OrderedFilters : \A pg \in SlicePages :
          LET whole == RowIds(Request(m, f[1], f[2], 0, 0, 1))
              got == RowIds(Request(m, f[1], f[2], pg[1], pg[2], 1))
          IN IF pg[1] > 0
             THEN /\ Len(got) = Max(0, Min(pg[1], Len(whole) - pg[2]))
                  /\ \A k \in 1..Len(got) : got[k] = whole[pg[2] + k]
             ELSE got = whole
    /\ Queried =>
          LET whole == Response([result.options EXCEPT !.limit = 0, !.offset = 0]).items
              L == result.options.limit
              O == result.options.offset
          IN IF L > 0
             THEN /\ Len(result.items) = Max(0, Min(L, Len(whole) - O))
                  /\ \A k \in 1..Len(result.items) : result.items[k] = whole[O + k]
             ELSE result.items = whole

\* C12 witness: a page of limit 2 at offset 1 has returned the one item left of
\* a result of two.
C12_Witness ==
    /\ Queried
    /\ result.options.limit = 2
    /\ result.options.offset = 1
    /\ result.total = 2
    /\ Len(result.items) = 1

\* C13: ratingMin = 0 excludes nothing, and ratingMin = m in 1..5 returns exactly
\* the files the same request returns with ratingMin = 0 whose rating is >= m.
C13_RatingFilter ==
    /\ \A tl \in QueryTagLists \cup RepeatedTagLists :
          LET Ids(q) == {q[k] : k \in 1..Len(q)}
              unrated == Ids(RowIds(Request("playlist", 0, tl, 0, 0, 1)))
          IN /\ tl = <<>> => unrated = NonMissing
             /\ \A m \in 1..5 :
                   Ids(RowIds(Request("playlist", m, tl, 0, 0, 1)))
                      = {i \in unrated : files[i].rating >= m}
    /\ (Queried /\ result.options.ratingMin > 0) =>
          /\ \A k \in 1..Len(result.items) : result.items[k].rating >= result.options.ratingMin
          /\ result.total = Cardinality({i \in NonMissing : files[i].rating >= result.options.ratingMin
                                                           /\ Carries(i, result.options.tags)})

\* C13 witness: a query with ratingMin 3 has returned a rated file and left out
\* a file of rating 0 that is not missing.
C13_Witness ==
    /\ Queried
    /\ result.options.ratingMin = 3
    /\ Len(result.items) = 1
    /\ result.items[1].rating >= 3
    /\ \E i \in NonMissing : files[i].rating = 0

\* C14: after saveOrder(L), L a list of distinct ids of Library members, the
\* unfiltered query in playlist order returns the files of L that are not
\* missing, in the order of L, as its first items.
C14_ListedFilesComeFirst ==
    [][(/\ result'.op = "saveOrder"
        /\ db # NoRoot
        /\ \A j, k \in 1..Len(result'.fileIds) : j # k => result'.fileIds[j] # result'.fileIds[k]
        /\ \A k \in 1..Len(result'.fileIds) : MembershipsOf(result'.fileIds[k]) # {})
       => LET Present(i) == files[i].is_missing = 0
              expected == SelectSeq(result'.fileIds, Present)
              got == RowIds(WholeCatalog)'
          IN /\ Len(got) >= Len(expected)
             /\ \A k \in 1..Len(expected) : got[k] = expected[k]]_vars

\* The tag names a file carries in the given tags and file_tags tables.
NamesIn(ts, fts, fileId) == {ts[ft.tag_id] : ft \in {x \in fts : x.file_id = fileId}}

\* C15: toggleTag(f, x) on an existing file completes, flips whether f carries x
\* and changes no other association; the tag row named x exists afterwards; a
\* second toggleTag(f, x) right after it restores the tag set of f; and no step
\* of any operation removes or renames a tag row.
C15_ToggleFlipsOneAssociation ==
    [][/\ \A k \in 1..Len(tags) : k <= Len(tags') /\ tags'[k] = tags[k]
       /\ (result'.op = "toggleTag" /\ db # NoRoot /\ result'.fileId \in FileIds) =>
             LET f == result'.fileId
                 x == result'.tagName
                 again == ToggleTx(tags', file_tags', file_tags_sequence', f, x)
             IN /\ ~result'.threw
                /\ (x \in NamesIn(tags', file_tags', f)) <=> (x \notin TagNamesOf(f))
                /\ NamesIn(tags', file_tags', f) \ {x} = TagNamesOf(f) \ {x}
                /\ \A i \in FileIds \ {f} : NamesIn(tags', file_tags', i) = TagNamesOf(i)
                /\ TagIdOf(tags', x) # 0
                /\ NamesIn(again.tags, again.file_tags, f) = TagNamesOf(f)
                /\ \A i \in FileIds \ {f} :
                      NamesIn(again.tags, again.file_tags, i) = TagNamesOf(i)]_vars

\* C15 witness: a second toggleTag(f, x) has removed the only association of the
\* tag x, whose row is still in the tags table.
C15_Witness ==
    /\ db # NoRoot
    /\ result.op = "toggleTag"
    /\ result.fileId \in FileIds
    /\ ~result.threw
    /\ TagIdOf(tags, result.tagName) # 0
    /\ \A i \in FileIds : result.tagName \notin TagNamesOf(i)
    /\ nmut = 2

\* A Mutation API call on an open catalog with a file id that has no row.
UnknownIdCall ==
    /\ db # NoRoot
    /\ \/ /\ result'.op \in {"setRating", "setDuration", "setLastPlayed", "toggleTag"}
          /\ result'.fileId \notin FileIds
       \/ /\ result'.op = "saveOrder"
          /\ Len(result'.fileIds) > 0
          /\ \A k \in 1..Len(result'.fileIds) : result'.fileIds[k] \notin FileIds

\* C16: setRating, setDuration, setLastPlayed, toggleTag and saveOrder called
\* with a file id that has no row raise no error and leave the files, tags,
\* file_tags and file_playlists tables unchanged.
C16_UnknownIdIsNoOp ==
    [][UnknownIdCall =>
          /\ ~result'.threw
          /\ files' = files
          /\ tags' = tags
          /\ file_tags' = file_tags
          /\ file_playlists' = file_playlists]_vars

\* C18: after a scan every file of the snapshot has exactly one Library
\* membership, and every membership the scan created has an order index above
\* every order index the collection held before the scan and different from the
\* other indices the scan assigned.
C18_FreshOrderIndices ==
    [][ScanStep =>
          LET created == LibraryMembers' \ LibraryMembers
          IN /\ \A p \in SnapshotPaths :
                   \E i \in DOMAIN files' :
                      /\ files'[i].path = p
                      /\ Cardinality({m \in LibraryMembers' : m.file_id = i}) = 1
             /\ \A m \in created :
                   /\ \A o \in LibraryMembers : m.order_index > o.order_index
                   /\ \A n \in created : n # m => n.order_index # m.order_index]_vars

\* C18 witness: a scan has revisited a row and inserted two.
C18_Witness ==
    /\ db # NoRoot
    /\ result.op = "scanLibrary"
    /\ result.added >= 2
    /\ result.updated >= 1
    /\ Cardinality(LibraryMembers) = Cardinality(FileIds)

FailedScanStep == result'.op = "scanLibrary" /\ result'.threw

\* C17: when a statement of the scan's transaction fails, the error propagates,
\* no counts are returned, and every table is as it was before the scan.
C17_FailedScanChangesNothing ==
    [][FailedScanStep =>
          /\ DOMAIN result' \cap {"added", "removed", "updated"} = {}
          /\ files' = files
          /\ sqlite_sequence' = sqlite_sequence
          /\ file_playlists' = file_playlists
          /\ playlists' = playlists
          /\ tags' = tags
          /\ file_tags' = file_tags
          /\ settings' = settings]_vars

\* C17 witness: a scan has failed on a catalog whose rows do not cover the
\* files on disk, so that the failed transaction had rows to insert.
C17_Witness ==
    /\ result.op = "scanLibrary"
    /\ result.threw
    /\ FileIds # {}
    /\ \E p \in SnapshotPaths : p \notin CatalogPaths

\* C20: setRating(f, r) on an existing file writes r as the rating of f whatever
\* integer r is, changes nothing else, and the query that follows returns f with
\* rating r and keeps f under a minimum rating m exactly when r >= m.
C20_RatingIsStoredUnchecked ==
    [][\A f \in FileIds :
          (result'.op = "setRating" /\ result'.fileId = f /\ db # NoRoot) =>
             /\ files' = [files EXCEPT ![f].rating = result'.rating]
             /\ UNCHANGED <<playlists, sqlite_sequence, file_playlists, tags, file_tags, file_tags_sequence, settings>>
             /\ Item(f)'.rating = result'.rating
             /\ \A m \in 0..5 :
                   Returned(Request("playlist", m, <<>>, 0, 0, 1), f)'
                      <=> (files[f].is_missing = 0 /\ (m = 0 \/ result'.rating >= m))]_vars

\* C20 witness: one file carries a rating above 5 and the last call has given
\* another file a rating below 0.
C20_Witness ==
    /\ db # NoRoot
    /\ result.op = "setRating"
    /\ result.fileId \in FileIds
    /\ result.rating < 0
    /\ files[result.fileId].rating = result.rating
    /\ files[result.fileId].is_missing = 0
    /\ \E i \in FileIds : files[i].rating > 5

\* ------------------------------------------------------------ unvalidated requests
\* Minimum ratings outside 0..5 and the value the range would clamp each to.
Clamped(m) == IF m < 0 THEN 0 ELSE IF m > 5 THEN 5 ELSE m
WildRatings == {-1, 6, 8}

\* C21 (as claimed): a request with ratingMin above 5 returns the rows and total
\* of the same request with ratingMin = 5, and one with a negative ratingMin
\* those of the request with ratingMin = 0.
C21_RatingMinIsClamped ==
    db # NoRoot =>
        \A m \in WildRatings :
            /\ RowIds(Request("playlist", m, <<>>, 0, 0, 1))
                  = RowIds(Request("playlist", Clamped(m), <<>>, 0, 0, 1))
            /\ TotalOf(Request("playlist", m, <<>>, 0, 0, 1))
                  = TotalOf(Request("playlist", Clamped(m), <<>>, 0, 0, 1))

\* A tag name that is empty or made of spaces only.
IsBlank(name) == \A i \in 1..Len(name) : name[i] = " "
\* Tag lists that carry blank names next to the names the catalog uses.
BlankTagLists == {<< <<"a">>, <<>> >>, << <<" ">>, <<"a">> >>, << <<>> >>, << <<"a">>, <<"A">>, <<" ">> >>}

\* C22 (as claimed): a request whose tag list holds blank names returns the rows
\* and total of the same request with those names removed.
C22_BlankTagNamesAreIgnored ==
    db # NoRoot =>
        \A tl \in BlankTagLists :
            LET kept == SelectSeq(tl, LAMBDA name : ~IsBlank(name))
            IN /\ RowIds(Request("filename", 0, tl, 0, 0, 1))
                     = RowIds(Request("filename", 0, kept, 0, 0, 1))
               /\ TotalOf(Request("filename", 0, tl, 0, 0, 1))
                     = TotalOf(Request("filename", 0, kept, 0, 0, 1))

\* ------------------------------------------------------------ lifecycle claims
MutationOps ==
    {"setRating", "setDuration", "setLastPlayed", "toggleTag", "addTag", "saveOrder", "setSetting"}

\* C23: while this process has no open catalog, getPlaylist returns no items and
\* total 0, scanLibrary returns three zeros, getSetting returns null, no call
\* raises an error, and no call other than a successful setRoot changes a table.
C23_NoRootIsInert ==
    [][db = NoRoot =>
          /\ result'.op = "getPlaylist" =>
                result'.items = <<>> /\ result'.total = 0 /\ queue' = queue
          /\ result'.op = "scanLibrary" =>
                /\ ~result'.threw
                /\ result'.added = 0 /\ result'.removed = 0 /\ result'.updated = 0
          /\ result'.op \in MutationOps => ~result'.threw
          /\ \A n \in LifecycleSettingNames : getSetting(n) = NullText
          /\ db' = NoRoot => catalog' = catalog]_vars

\* C23 witness: a process without an open catalog has called setSetting on a
\* catalog that an earlier process filled with a file row and a setting.
C23_Witness ==
    /\ db = NoRoot
    /\ result.op = "setSetting"
    /\ FileIds # {}
    /\ \E x \in settings : x.name = result.name /\ x.value # result.value

\* The ids of the playlists rows named Library.
LibraryRows(pl) == {i \in 1..Len(pl) : pl[i] = LibraryName}

\* C24: every successful setRoot leaves exactly one collection named Library;
\* an opening of a catalog that already has it changes no table, and the id the
\* manager uses is the id every membership refers to, the same at every opening.
C24_ReopeningKeepsTheLibrary ==
    [][/\ Cardinality(LibraryRows(playlists')) <= 1
       /\ (result'.op = "setRoot" /\ ~result'.threw) =>
             /\ Cardinality(LibraryRows(playlists')) = 1
             /\ libraryPlaylistId' \in LibraryRows(playlists')
             /\ LibraryRows(playlists) # {} =>
                   /\ playlists' = playlists
                   /\ LibraryRows(playlists') = LibraryRows(playlists)
             /\ UNCHANGED <<files, sqlite_sequence, file_playlists, tags, file_tags, file_tags_sequence, settings>>
             /\ \A m \in file_playlists' : m.playlist_id = libraryPlaylistId'
       /\ (db # NoRoot /\ db' # NoRoot) => libraryPlaylistId' = libraryPlaylistId]_vars

\* C24 witness: setRoot has opened a catalog that holds a file row, its
\* membership and a tag from an earlier opening.
C24_Witness ==
    /\ result.op = "setRoot"
    /\ ~result.threw
    /\ db # NoRoot
    /\ FileIds # {}
    /\ file_playlists # {}
    /\ Len(tags) > 0

\* C27: after setSetting(k, v) getSetting(k) returns v; no other step changes
\* what getSetting returns for any key while the catalog is open, so v stays
\* until the next setSetting(k, .); the call changes no other key's value; there
\* is at most one row per key; a key without a row reads as null.
C27_SettingsAreLastWriterWins ==
    [][/\ \A n \in LifecycleSettingNames :
             /\ Cardinality({x \in settings' : x.name = n}) <= 1
             /\ (db' # NoRoot /\ ~\E x \in settings' : x.name = n) => getSetting(n)' = NullText
       /\ \A k \in LifecycleSettingNames :
             (db # NoRoot /\ result'.op = "setSetting" /\ result'.name = k) =>
                /\ getSetting(k)' = result'.value
                /\ \A n \in LifecycleSettingNames \ {k} : getSetting(n)' = getSetting(n)
       /\ result'.op # "setSetting" => settings' = settings
       /\ (db # NoRoot /\ db' # NoRoot /\ result'.op # "setSetting") =>
             \A n \in LifecycleSettingNames : getSetting(n)' = getSetting(n)]_vars

\* C27 witness: setSetting has overwritten the value of one key while another
\* key holds a value of its own.
C27_Witness ==
    /\ db # NoRoot
    /\ result.op = "setSetting"
    /\ result.value = NullText
    /\ getSetting(result.name) = NullText
    /\ [name |-> result.name, value |-> NullText] \in settings
    /\ \E n \in LifecycleSettingNames \ {result.name} : getSetting(n) = "created"

\* The number of tags rows with a name.
TagRowsNamed(ts, name) == Cardinality({i \in 1..Len(ts) : ts[i] = name})

ReadableMedia == {e \in MediaOnDisk(disk) : DirsAbove(e.path) \cap unreadable = {}}

\* C25 (as claimed): a scan of a folder with a directory that cannot be read
\* completes, and every media file outside that directory has a row that is not
\* flagged missing when the scan is over.
C25_UnreadableDirectoryIsSkipped ==
    [][ScanStep =>
          /\ ~result'.threw
          /\ \A e \in ReadableMedia :
                \E i \in DOMAIN files' : files'[i].path = e.path /\ files'[i].is_missing = 0]_vars

\* Whether an entry is below the cache directory of the root, root/.cache.
InRootCache(p) == ".cache" \in DirsAbove(p)
\* The files the claim has the walk return: recognized extension, outside root/.cache.
ClaimedMedia == {e \in disk : isVideoFile(e.path) /\ ~InRootCache(e.path)}

\* C26 (as claimed): collectFiles returns the files with a recognized extension
\* that are not inside root/.cache, each exactly once with its relative path.
C26_WalkReturnsMediaOutsideRootCache ==
    ~WalkThrows(unreadable) =>
        \A list \in collectFiles(disk) :
            /\ {list[k].relativePath : k \in 1..Len(list)} = {e.path : e \in ClaimedMedia}
            /\ Len(list) = Cardinality(ClaimedMedia)

\* ------------------------------------------------------------ inspectPath claims
\* The directory k levels above a directory.
Ancestor(dir, k) == SubSeq(dir, 1, Len(dir) - k)
\* How many levels above a directory the nearest catalog within 3 levels is, -1 when none is.
NearestLevel(dir) ==
    LET S == {k \in 0..3 : k <= Len(dir) /\ Ancestor(dir, k) \in catalogDirs}
    IN IF S = {} THEN -1 ELSE CHOOSE k \in S : \A j \in S : k <= j

\* C29: for a file target foundDbRoot is the nearest directory holding a catalog
\* file among the directory of the file and the directories up to 3 levels above
\* that directory, and null when none of them holds one; a catalog further up
\* is never returned.
C29_NearestCatalogWithinThreeLevels ==
    [][(result'.op = "inspectPath" /\ result'.info.kind = "file") =>
          LET dir == Dirname(result'.info.path)
              found == result'.info.foundDbRoot
          IN /\ NearestLevel(dir) = -1 => found.isNull
             /\ NearestLevel(dir) # -1 =>
                   ~found.isNull /\ found.dir = Ancestor(dir, NearestLevel(dir))
             /\ ~found.isNull =>
                   found.dir \in catalogDirs /\ Len(dir) - Len(found.dir) \in 0..3]_vars

\* C29 witness: a file has been inspected whose directory has catalogs 3 levels
\* and 4 levels above it, and the one 3 levels above has been reported.
C29_Witness ==
    /\ result.op = "inspectPath"
    /\ result.info.kind = "file"
    /\ Len(result.info.path) = 6
    /\ Ancestor(Dirname(result.info.path), 4) \in catalogDirs
    /\ ~result.info.foundDbRoot.isNull
    /\ result.info.foundDbRoot.dir = Ancestor(Dirname(result.info.path), 3)

\* ------------------------------------------------------------ two instances
\* The memberships of a file in a collection named Library.
LibraryMembershipsOf(fileId) ==
    {m \in file_playlists : m.file_id = fileId /\ playlists[m.playlist_id] = LibraryName}

\* C30: whatever two instances on one catalog do and however their statements
\* interleave, no two files rows have the same relative path, no file has two
\* Library memberships, and no (file, tag) pair has two association rows.
C30_RowsStayUniqueWithTwoInstances ==
    /\ \A i \in FileIds : \A j \in FileIds : files[i].path = files[j].path => i = j
    /\ \A i \in FileIds : Cardinality(LibraryMembershipsOf(i)) <= 1
    /\ \A x \in file_tags : \A y \in file_tags :
          (x.file_id = y.file_id /\ x.tag_id = y.tag_id) => x.id = y.id

\* C30 witness: both instances have inserted a Library row, a scan transaction
\* of the second instance has failed on a path the first instance had inserted
\* after the second one's SELECT, and a file carries a tag.
C30_Witness ==
    /\ Len(playlists) = 2
    /\ peer.pc = "idle"
    /\ peer.last = "scanLibrary"
    /\ peer.threw
    /\ FileIds # {}
    /\ file_tags # {}

\* ------------------------------------------------------------ scan frame claims
\* The columns of a files row that scanLibrary may not write.
KeptColumns(row) ==
    [path |-> row.path, duration_ms |-> row.duration_ms, rating |-> row.rating,
     meta |-> row.meta, added_on |-> row.added_on, last_played |-> row.last_played,
     play_count |-> row.play_count]
\* The columns of a files row that scanLibrary writes only when it sees the file.
StatColumns(row) ==
    [name |-> row.name, ext |-> row.ext, size |-> row.size, mtime |-> row.mtime,
     created_ms |-> row.created_ms]

\* C31: a scan keeps rating, duration, play count, last-played and first-seen
\* timestamp of every existing row, keeps the tag rows, the tag associations,
\* the settings and every existing membership with its order index, and of a
\* row whose file it does not see it changes nothing but the missing flag.
C31_ScanWritesOnlyStatAndMissing ==
    [][ScanStep =>
          /\ \A i \in FileIds :
                /\ i \in DOMAIN files'
                /\ KeptColumns(files'[i]) = KeptColumns(files[i])
                /\ files[i].path \notin SnapshotPaths =>
                      StatColumns(files'[i]) = StatColumns(files[i])
          /\ tags' = tags
          /\ file_tags' = file_tags
          /\ settings' = settings
          /\ file_playlists \subseteq file_playlists']_vars

\* C31 witness: a scan has updated a row that carries a rating, a play count or
\* a tag, and has found another row's file gone.
C31_Witness ==
    /\ db # NoRoot
    /\ result.op = "scanLibrary"
    /\ result.updated >= 1
    /\ \E i \in FileIds :
          /\ files[i].is_missing = 0
          /\ files[i].rating # 0 \/ files[i].play_count # 0 \/ TagNamesOf(i) # {}
    /\ \E i \in FileIds : files[i].is_missing = 1 /\ files[i].path \notin SnapshotPaths

\* C32: a scan that succeeds returns added = the number of scanned files without
\* a prior row, updated = the number of scanned files with a prior row, and
\* removed = the number of rows before the scan minus updated.
C32_ScanCounts ==
    [][(ScanStep /\ ~result'.threw) =>
          /\ result'.added = Cardinality(SnapshotPaths \ CatalogPaths)
          /\ result'.updated = Cardinality(SnapshotPaths \cap CatalogPaths)
          /\ result'.added + result'.updated = Cardinality(SnapshotPaths)
          /\ result'.removed = Cardinality(FileIds) - result'.updated]_vars

\* ------------------------------------------------------------ setRoot failure
\* C33: a setRoot whose openDatabase fails leaves the root, the catalog handle
\* and the Library id of the manager as they were, so that after every step the
\* root and the handle are of the same directory (or both unset).
C33_FailedSetRootChangesNothing ==
    [][/\ (result'.op = "setRoot" /\ result'.threw) =>
             (root' = root /\ db' = db /\ libraryPlaylistId' = libraryPlaylistId)
       /\ root' = db']_vars

\* ------------------------------------------------------------ thumbnail claims
\* The subprocesses that have emitted neither 'exit' nor 'error'.
Unfinished == {k \in 1..Len(spawned) : spawned[k].events = {}}

\* C34: at most one spawned subprocess has not finished, whichever of 'error'
\* and 'exit' its predecessors emit and in whichever order, both included.
C34_OneSubprocessAtATime == Cardinality(Unfinished) <= 1

\* C35: the queue never holds two jobs with the same destination, and no
\* subprocess is spawned for a destination whose artifact exists.
C35_OneJobPerDestination ==
    [][/\ \A i \in 1..Len(queue') : \A j \in 1..Len(queue') :
             queue'[i].thumbPath = queue'[j].thumbPath => i = j
       /\ Len(spawned') > Len(spawned) =>
             spawned'[Len(spawned')].job.thumbPath \notin thumbs]_vars

\* C37: every returned item has thumbnailPath and thumbnailUrl both null or both
\* non-null.
C37_ThumbnailFieldsAgree ==
    result.op = "getPlaylist" =>
        \A i \in 1..Len(result.items) :
            result.items[i].hasThumbnailPath = result.items[i].hasThumbnailUrl

\* 'ready' has been emitted only for a subprocess that exited with code 0 and
\* whose artifact exists.
ReadyOnlyForArtifacts ==
    \A k \in 1..Len(spawned) :
        spawned[k].ready =>
            /\ "exit" \in spawned[k].events
            /\ spawned[k].code = 0
            /\ spawned[k].job.thumbPath \in thumbs

C38_ConcurrentOpeningsMakeOneLibrary ==
    (db # NoRoot /\ peer.pc \notin {"closed", "insertLibrary", "getLibraryPlaylistId"}) =>
        /\ Cardinality(LibraryRows(playlists)) = 1
        /\ libraryPlaylistId = peer.libraryPlaylistId

\* ------------------------------------------------------------ plyer:// handler
\* The ninth specification applies the handler of the plyer:// scheme to
\* requests for a path, with Range headers drawn as strings over a small
\* alphabet in which "bytes=" is one symbol.
MaxHeaderLen == 5
RangeChars == {"bytes=", "0", "3", "-", "x"}
FileSizes == {0, 1, 4, 33}
RangeHeaders == UNION {[1..k -> RangeChars] : k \in 0..MaxHeaderLen}

\* \d of the regular expression.
IsDigit(c) == c \in {"0", "1", "2", "3", "4", "5", "6", "7", "8", "9"}
DigitValue(c) ==
    CASE c = "0" -> 0 [] c = "1" -> 1 [] c = "2" -> 2 [] c = "3" -> 3 [] c = "4" -> 4
      [] c = "5" -> 5 [] c = "6" -> 6 [] c = "7" -> 7 [] c = "8" -> 8 [] c = "9" -> 9

\* Number.parseInt(s, 10) of a string of digits, read from the left.
RECURSIVE ParseIntFrom(_, _, _)
ParseIntFrom(s, i, acc) ==
    IF i > Len(s) THEN acc ELSE ParseIntFrom(s, i + 1, acc * 10 + DigitValue(s[i]))
ParseInt(s) == ParseIntFrom(s, 1, 0)

\* (\d*) from position i: the position after the longest run of digits.
DigitsEnd(h, i) ==
    LET stops == {j \in i..(Len(h) + 1) : j = Len(h) + 1 \/ ~IsDigit(h[j])}
    IN CHOOSE j \in stops : \A k \in stops : j <= k

\* /bytes=(\d*)-(\d*)/ tried at position i of the header.
MatchesAt(h, i) ==
    /\ h[i] = "bytes="
    /\ DigitsEnd(h, i + 1) <= Len(h)
    /\ h[DigitsEnd(h, i + 1)] = "-"

\* /bytes=(\d*)-(\d*)/.exec(range): the leftmost match with its two groups.
RegExpExec(h) ==
    LET S == {i \in 1..Len(h) : MatchesAt(h, i)}
    IN IF S = {} THEN [matched |-> FALSE, first |-> <<>>, last |-> <<>>]
       ELSE LET i == CHOOSE x \in S : \A y \in S : x <= y
                dash == DigitsEnd(h, i + 1)
            IN [matched |-> TRUE, first |-> SubSeq(h, i + 1, dash - 1),
                last |-> SubSeq(h, dash + 1, DigitsEnd(h, dash + 1) - 1)]

\* Mutant: the start of a suffix range is not kept from going below 0.
NormalizeRange_SuffixUnclamped(size, start, end) ==
    IF start = NULL /\ end # NULL
    THEN [start |-> size - end, end |-> size - 1]
    ELSE [start |-> IF start = NULL THEN 0 ELSE start,
          end |-> IF end = NULL \/ end >= size THEN size - 1 ELSE end]

\* The handler's normalisation of the parsed start and end (NULL: undefined).
NormalizeRange(size, start, end) ==
    IF start = NULL /\ end # NULL
    THEN [start |-> Max(size - end, 0), end |-> size - 1]
    ELSE [start |-> IF start = NULL THEN 0 ELSE start,
          end |-> IF end = NULL \/ end >= size THEN size - 1 ELSE end]

\* A response: status, the start and end of Content-Range (NULL for '*' or when
\* the header is absent), the size of Content-Range and Content-Length.
HttpResponse(request, status, start, end, rangeSize, contentLength) ==
    [op |-> "response", request |-> request, status |-> status, start |-> start, end |-> end,
     rangeSize |-> rangeSize, contentLength |-> contentLength]

\* protocol.handle(PLYER_SCHEME, ...)
protocolHandle(request) ==
    IF request.kind # "file" THEN HttpResponse(request, 404, NULL, NULL, NULL, NULL)
    ELSE LET size == request.size
             match == RegExpExec(request.range)
             r == NormalizeRange(size,
                                 IF match.first # <<>> THEN ParseInt(match.first) ELSE NULL,
                                 IF match.last # <<>> THEN ParseInt(match.last) ELSE NULL)
         IN IF request.range # <<>> /\ match.matched
            THEN IF r.start >= size \/ r.end < r.start
                 THEN HttpResponse(request, 416, NULL, NULL, size, NULL)
                 ELSE HttpResponse(request, 206, r.start, r.end, size, r.end - r.start + 1)
            ELSE HttpResponse(request, 200, NULL, NULL, NULL, size)

Requests ==
    {[op |-> "request", kind |-> "file", size |-> s, range |-> h] :
        s \in FileSizes, h \in RangeHeaders}
    \cup {[op |-> "request", kind |-> k, size |-> 0, range |-> <<"bytes=", "0", "-">>] :
             k \in {"directory", "missing"}}

RangeInit ==
    /\ root = NoRoot
    /\ db = NoRoot
    /\ libraryPlaylistId = 0
    /\ playlists = <<>>
    /\ files = <<>>
    /\ sqlite_sequence = 0
    /\ file_playlists = {}
    /\ tags = <<>>
    /\ file_tags = {}
    /\ file_tags_sequence = 0
    /\ settings = {}
    /\ unreadable = {}
    /\ catalogDirs = {}
    /\ peer = PeerClosed
    /\ disk = {}
    /\ ffmpegPath = FALSE
    /\ queue = <<>>
    /\ working = FALSE
    /\ spawned = <<>>
    /\ thumbs = {}
    /\ result \in Requests
    /\ nmut = 0

\* The handler answers the request.
ProtocolHandle ==
    /\ result.op = "request"
    /\ result' = protocolHandle(result)
    /\ UNCHANGED <<manager, catalog, disk, host, thumbnail, nmut>>

RangeNext == ProtocolHandle

RangeSpec == RangeInit /\ [][RangeNext]_vars

\* ------------------------------------------------------------ range claims
\* The strings of digits a byte range is written with, and their decimal value.
DigitStrings == UNION {[1..k -> {c \in RangeChars : IsDigit(c)}] : k \in 0..(MaxHeaderLen - 2)}
PowerOfTen(e) == CASE e = 0 -> 1 [] e = 1 -> 10 [] e = 2 -> 100 [] e = 3 -> 1000 [] e = 4 -> 10000
RECURSIVE SumOver(_, _)
SumOver(d, k) ==
    IF k = 0 THEN 0 ELSE DigitValue(d[k]) * PowerOfTen(Len(d) - k) + SumOver(d, k - 1)
DecimalValue(d) == SumOver(d, Len(d))

\* What the claim has the handler answer to 'bytes=d1-d2' on a file of size s.
Satisfiable(s, d1, d2) ==
    IF d1 = <<>> /\ d2 # <<>>
    THEN Min(DecimalValue(d2), s) > 0
    ELSE DecimalValue(d1) < s /\ (d2 = <<>> \/ DecimalValue(d2) >= DecimalValue(d1))
ClaimedStart(s, d1, d2) ==
    IF d1 = <<>> /\ d2 # <<>> THEN s - Min(DecimalValue(d2), s) ELSE DecimalValue(d1)
ClaimedEnd(s, d1, d2) ==
    IF d1 = <<>> \/ d2 = <<>> THEN s - 1 ELSE Min(DecimalValue(d2), s - 1)

\* C39: a request with the Range header 'bytes=first-last' for a regular file of
\* size S is answered 206 with 0 <= start <= end <= S-1, Content-Length
\* end-start+1 and Content-Range start-end/S, or 416 exactly when start >= S or
\* end < start; 'bytes=-N' is served as the last min(N, S) bytes.
C39_RangeIsServedOrRefused ==
    \A d1 \in DigitStrings : \A d2 \in DigitStrings :
        (/\ result.op = "response"
         /\ result.request.kind = "file"
         /\ result.request.range = <<"bytes=">> \o d1 \o <<"-">> \o d2) =>
            LET s == result.request.size
            IN /\ result.status \in {206, 416}
               /\ result.status = 206 <=> Satisfiable(s, d1, d2)
               /\ result.status = 416 => result.rangeSize = s
               /\ result.status = 206 =>
                     /\ 0 <= result.start /\ result.start <= result.end /\ result.end <= s - 1
                     /\ result.start = ClaimedStart(s, d1, d2)
                     /\ result.end = ClaimedEnd(s, d1, d2)
                     /\ result.contentLength = result.end - result.start + 1
                     /\ result.rangeSize = s

\* C39 witness: the suffix range 'bytes=-33' on a file of 4 bytes has been served
\* as the whole file, bytes 0-3.
C39_Witness ==
    /\ result.op = "response"
    /\ result.request.kind = "file"
    /\ result.request.size = 4
    /\ result.request.range = <<"bytes=", "-", "3", "3">>
    /\ result.status = 206
    /\ result.start = 0
    /\ result.end = 3
    /\ result.contentLength = 4

====
